---------------------------- MODULE Spec2Model ----------------------------
(***************************************************************************)
(* A model of the metadata dump of thin-provisioning-tools:                *)
(*   src/src/thin/dump.rs  RunBuilder, MappingVisitor, emit_leaf,          *)
(*                         read_for, emit_leaves, emit_entries,            *)
(*                         to_superblock_ir, dump_metadata                 *)
(* Two specifications are given.  SpecRB drives the run builder alone with *)
(* arbitrary entries.  Spec runs dump_metadata over a metadata model, a    *)
(* disk and a sink, and then runs it a second time over the same inputs    *)
(* with another engine batch size.                                         *)
(***************************************************************************)
EXTENDS Integers, Sequences, FiniteSets, TLC

VARIABLES
    md,       \* the Metadata handed to dump_metadata: [defs, devs]
    sb,       \* the ThinSuperblock handed to dump_metadata
    batch,    \* engine.get_batch_size() of the running execution
    damage,   \* how the damaged block fails ("unknown" until it is read)
    pc,       \* position in dump_metadata / the run builder driver
    phase,    \* "defs" or "devs": which loop of dump_metadata runs
    idx,      \* index of the current def / device
    ei,       \* emit_entries: index of the current entry
    leaves,   \* emit_entries: the Vec of leaves collected so far
    todo,     \* read_for: the blocks not yet handed to read_many
    chunk,    \* read_for: the results of the current read_many
    cur,      \* MappingVisitor::visit: the (key, value) pairs still to visit
    run,      \* RunBuilder.run
    ret,      \* what the last RunBuilder call returned
    inputs,   \* the entries given to RunBuilder.next so far (SpecRB)
    out,      \* the callbacks made on the sink, in order
    origin,   \* per callback: the leaves handed to emit_leaf when it was made
    leafNo,   \* number of leaves handed to emit_leaf so far
    stopAt,   \* index of the first callback that returned Stop (0: none)
    failAt,   \* index of the callback that returned Err (0: none)
    result,   \* "running", "ok" or "err": what dump_metadata returned
    error,    \* the error dump_metadata returned
    exec,     \* 1: first execution, 2: second execution over the same inputs
    first,    \* what the first execution delivered and returned
    fault,    \* an engine fault (read_many as a whole failed) has happened
    file,     \* the input file the command-line checks look at
    res,      \* the anyhow::Result handed to to_exit_code
    exit_code,\* what to_exit_code returned (-1: not called)
    fatal,    \* the messages given to report.fatal, in order
    verdict,  \* what a check of the input file returned
    opts,     \* the ThinDumpOptions of the running thin_dump
    device,   \* the metadata device thin_dump reads: its superblock block
    sm,       \* the space map on disk that allocated_blocks reads
    infos,    \* allocated_blocks: the sorted IndexInfos not yet read
    bits,     \* allocated_blocks: the RoaringBitmap built so far
    migrate_opts, \* ThinMigrateOptions: destination, create, buffer_size
    source,   \* the thin device migrated from, and the flags it is open with
    dest,     \* the destination: length, open flags, blocks written
    dest0,    \* the destination as migrate found it
    stream,   \* the chunks next_chunk has yet to give
    range,    \* for b in begin..end: the next b and end
    batcher,  \* CopyOpBatcher: batch_size and the ops of the batch filled
    channel,  \* the sync_channel: queued batches, sender and receiver alive
    copier,   \* the copier thread: its state and the batch it holds
    pushed,   \* every CopyOp handed to batcher.push, in order
    mutex,    \* MappingVisitor.inner: the thread that holds the lock (0: none)
    visitors, \* the threads calling visit / end_walk: position, entries left
    trace     \* the builder calls and map callbacks made, with their thread

\* what dump_with_formatter is given
toolVars == <<opts, device>>

\* the variables of allocated_blocks
smVars == <<sm, infos, bits>>

\* the variables of migrate
mgVars == <<migrate_opts, source, dest, dest0, stream, range, batcher,
            channel, copier, pushed>>

\* the variables of MappingVisitor called from several threads
mvVars == <<mutex, visitors, trace>>

\* the variables of the operations outside thin_dump
extVars == <<smVars, mgVars, mvVars>>

\* the variables of the command-line helpers, of dump_with_formatter and
\* of the operations outside thin_dump
cliVars == <<file, res, exit_code, fatal, verdict, toolVars, extVars>>

vars == <<md, sb, batch, damage, pc, phase, idx, ei, leaves, todo,
          chunk, cur, run, ret, inputs, out, origin, leafNo, stopAt, failAt,
          result, error, exec, first, fault, cliVars>>

-----------------------------------------------------------------------------
(* Bounds *)

\* SpecRB: number of next() calls
MaxInputs == 3
\* Spec: number of entries (Leaf or Ref) of the whole metadata model
MaxEntries == 3
\* the batch sizes of the engines
BatchSizes == {1, 2}

ThinBlocks == 0..2
DataBlocks == 0..2
Times == 0..1

-----------------------------------------------------------------------------
(* ir::Map and the events of ir::MetadataVisitor *)

\* Option<ir::Map>::None; a run that exists has len >= 1
NoRun == [thin_begin |-> 0, data_begin |-> 0, time |-> 0, len |-> 0]

Map(thin_begin, data_begin, time, len) ==
    [thin_begin |-> thin_begin, data_begin |-> data_begin,
     time |-> time, len |-> len]

NoName == <<>>
NoDev == [dev_id |-> 0, mapped_blocks |-> 0, transaction |-> 0,
          creation_time |-> 0, snap_time |-> 0]
NoSb == [time |-> 0, transaction |-> 0, flags |-> 0, version |-> 0,
         data_block_size |-> 0, nr_data_blocks |-> 0]

Ev(kind, name, m, d, s) ==
    [ev |-> kind, name |-> name, map |-> m, dev |-> d, sb |-> s]

MapEv(m) == Ev("map", NoName, m, NoDev, NoSb)

-----------------------------------------------------------------------------
(* RunBuilder *)

RunBuilder_new == NoRun

\* a next() that never extends the open run
RunBuilder_next_never_extending(r, thin_block, data_block, time) ==
    [run |-> Map(thin_block, data_block, time, 1), ret |-> r]

\* mutant: the time of the entry is not compared
RunBuilder_next_ignoring_time(r, thin_block, data_block, time) ==
    IF r = NoRun
    THEN [run |-> Map(thin_block, data_block, time, 1), ret |-> NoRun]
    ELSE IF /\ thin_block = r.thin_begin + r.len
            /\ data_block = r.data_begin + r.len
         THEN [run |-> [r EXCEPT !.len = @ + 1], ret |-> NoRun]
         ELSE [run |-> Map(thin_block, data_block, time, 1), ret |-> r]

\* mutant: the open run is overwritten instead of returned
RunBuilder_next_dropping(r, thin_block, data_block, time) ==
    IF r = NoRun
    THEN [run |-> Map(thin_block, data_block, time, 1), ret |-> NoRun]
    ELSE IF /\ thin_block = r.thin_begin + r.len
            /\ data_block = r.data_begin + r.len
            /\ r.time = time
         THEN [run |-> [r EXCEPT !.len = @ + 1], ret |-> NoRun]
         ELSE [run |-> Map(thin_block, data_block, time, 1), ret |-> NoRun]

\* RunBuilder::next: the builder's run afterwards, and the Option returned
RunBuilder_next(r, thin_block, data_block, time) ==
    IF r = NoRun
    THEN [run |-> Map(thin_block, data_block, time, 1), ret |-> NoRun]
    ELSE IF /\ thin_block = r.thin_begin + r.len
            /\ data_block = r.data_begin + r.len
            /\ r.time = time
         THEN [run |-> [r EXCEPT !.len = @ + 1], ret |-> NoRun]
         ELSE [run |-> Map(thin_block, data_block, time, 1), ret |-> r]

\* a complete() that returns the open run and keeps it
RunBuilder_complete_keeping(r) == [run |-> r, ret |-> r]

\* RunBuilder::complete: self.run.take()
RunBuilder_complete(r) == [run |-> NoRun, ret |-> r]

-----------------------------------------------------------------------------
(* The disk read through the IoEngine, as emit_leaf sees its blocks *)

Locs == 1..3

KV(k, b, t) == [key |-> k, block |-> b, time |-> t]

\* what unpack_node yields for a block: a leaf's keys and BlockTime values
\* (keys strictly increasing within a node), or a block that cannot be used
Disk(loc) ==
    CASE loc = 1 -> [kind |-> "leaf", kvs |-> <<KV(0, 0, 0), KV(1, 1, 0)>>]
      [] loc = 2 -> [kind |-> "leaf", kvs |-> <<KV(2, 2, 0), KV(3, 0, 1)>>]
      [] OTHER   -> [kind |-> "damaged", kvs |-> <<>>]

\* the ways a block fails in read_for and emit_leaf
DamageKinds == {"read", "checksum", "unpack", "internal"}

-----------------------------------------------------------------------------
(* thin::metadata::Metadata, the input of dump_metadata *)

DefIds == {0, 10}
ThinIds == {1, 2}

Leaf(loc) == [tag |-> "Leaf", v |-> loc]
Ref(id) == [tag |-> "Ref", v |-> id]

\* the strictly ascending sequences over a set of numbers
AscSeqs(S) ==
    {f \in UNION {[1..k -> S] : k \in 0..Cardinality(S)} :
        \A i \in 1..Len(f) : \A j \in 1..Len(f) : i < j => f[i] < f[j]}

DetailOf(thin_id) ==
    [mapped_blocks |-> 3 * thin_id, transaction_id |-> thin_id - 1,
     creation_time |-> 0, snapshotted_time |-> thin_id - 1]

DefPos(defs, id) == {i \in 1..Len(defs) : defs[i].def_id = id}

\* the entries of all definitions and devices, one after the other
RECURSIVE Flatten(_)
Flatten(groups) ==
    IF groups = <<>> THEN <<>>
    ELSE Head(groups).entries \o Flatten(Tail(groups))

AllEntries(m) == Flatten(m.defs) \o Flatten(m.devs)

\* the thin blocks an entry maps, a Ref standing for its definition's entries
RECURSIVE EntryKeys(_, _)
EntryKeys(defs, e) ==
    IF e.tag = "Leaf"
    THEN {Disk(e.v).kvs[i].key : i \in 1..Len(Disk(e.v).kvs)}
    ELSE UNION {UNION {EntryKeys(defs, defs[p].entries[i]) :
                          i \in 1..Len(defs[p].entries)} :
                    p \in DefPos(defs, e.v)}

\* leaves in left-to-right order of a B-tree: ascending, disjoint key ranges
Ascending(defs, es) ==
    \A i \in 1..Len(es) : \A j \in 1..Len(es) :
        i < j => \A a \in EntryKeys(defs, es[i]) :
                    \A b \in EntryKeys(defs, es[j]) : a < b

\* What the model builder hands over.  Definitions and devices are sorted by
\* id; a Ref names a definition that comes earlier in defs (in a device: any
\* definition); a leaf is owned once, a subtree used twice being a
\* definition; a definition is not empty and is referenced; keys ascend.
ValidMetadata(m) ==
    LET es == AllEntries(m)
    IN  /\ \A i \in 1..Len(m.defs) : \A j \in 1..Len(m.defs) :
              i < j => m.defs[i].def_id < m.defs[j].def_id
        /\ \A i \in 1..Len(m.devs) : \A j \in 1..Len(m.devs) :
              i < j => m.devs[i].thin_id < m.devs[j].thin_id
        /\ \A i \in 1..Len(m.defs) : \A j \in 1..Len(m.defs[i].entries) :
              LET e == m.defs[i].entries[j]
              IN  e.tag = "Ref" => \E p \in DefPos(m.defs, e.v) : p < i
        /\ \A i \in 1..Len(m.devs) : \A j \in 1..Len(m.devs[i].entries) :
              LET e == m.devs[i].entries[j]
              IN  e.tag = "Ref" => DefPos(m.defs, e.v) # {}
        /\ \A i \in 1..Len(es) : \A j \in 1..Len(es) :
              (i < j /\ es[i].tag = "Leaf") => es[i] # es[j]
        /\ \A i \in 1..Len(m.defs) :
              /\ m.defs[i].entries # <<>>
              /\ \E k \in 1..Len(es) : es[k] = Ref(m.defs[i].def_id)
        /\ \A i \in 1..Len(m.defs) : Ascending(m.defs, m.defs[i].entries)
        /\ \A i \in 1..Len(m.devs) : Ascending(m.defs, m.devs[i].entries)

\* the leaves among the entries es
LeavesOf(es) == {es[i].v : i \in {j \in 1..Len(es) : es[j].tag = "Leaf"}}

\* the entry lists that extend es by at most n entries: leaves not in used,
\* definitions of defs, each entry's keys above the keys before it
RECURSIVE Extensions(_, _, _, _)
Extensions(defs, used, es, n) ==
    IF n = 0 THEN {es}
    ELSE LET syms == {Leaf(l) : l \in Locs \ (used \cup LeavesOf(es))} \cup
                     {Ref(defs[i].def_id) : i \in 1..Len(defs)}
             ok == {e \in syms : Ascending(defs, Append(es, e))}
         IN  {es} \cup UNION {Extensions(defs, used, Append(es, e), n - 1) :
                                 e \in ok}

\* the metadata models with the given ids and at most n more entries
RECURSIVE Build(_, _, _, _, _)
Build(dids, tids, defs, devs, n) ==
    LET used == LeavesOf(Flatten(defs) \o Flatten(devs))
    IN  IF dids # <<>>
        THEN UNION {Build(Tail(dids), tids,
                          Append(defs, [def_id |-> Head(dids),
                                        entries |-> es]),
                          devs, n - Len(es)) :
                       es \in Extensions(defs, used, <<>>, n) \ {<<>>}}
        ELSE IF tids # <<>>
        THEN UNION {Build(dids, Tail(tids), defs,
                          Append(devs, [thin_id |-> Head(tids),
                                        detail |-> DetailOf(Head(tids)),
                                        entries |-> es]),
                          n - Len(es)) :
                       es \in Extensions(defs, used, <<>>, n)}
        ELSE {[defs |-> defs, devs |-> devs]}

\* the inputs of dump_metadata: the valid models of at most MaxEntries entries
Models ==
    {m \in UNION {Build(dids, tids, <<>>, <<>>, MaxEntries) :
                    dids \in AscSeqs(DefIds), tids \in AscSeqs(ThinIds)} :
        ValidMetadata(m)}

\* thin::superblock::ThinSuperblock: OnDisk (data_sm_root packs an SMRoot
\* with nr_blocks, or does not unpack: sm_nr_blocks < 0) or InCore
Superblocks ==
    {[kind |-> "OnDisk", time |-> 1, transaction_id |-> 5,
      needs_check |-> FALSE, version |-> 2, data_block_size |-> 128,
      nr_data_blocks |-> 0, sm_nr_blocks |-> 1024],
     [kind |-> "OnDisk", time |-> 1, transaction_id |-> 5,
      needs_check |-> FALSE, version |-> 2, data_block_size |-> 128,
      nr_data_blocks |-> 0, sm_nr_blocks |-> -1],
     [kind |-> "InCore", time |-> 2, transaction_id |-> 6,
      needs_check |-> TRUE, version |-> 2, data_block_size |-> 64,
      nr_data_blocks |-> 2048, sm_nr_blocks |-> -1]}

-----------------------------------------------------------------------------
(* dump_metadata: helpers *)

\* format!("{}", id): the decimal digits of id
RECURSIVE Format(_)
Format(n) == IF n < 10 THEN <<n>> ELSE Append(Format(n \div 10), n % 10)

\* to_superblock_ir taking the number of data blocks of an OnDisk superblock
\* from the superblock's own field
to_superblock_ir_nr_field(s) ==
    [ok |-> s.kind # "OnDisk" \/ s.sm_nr_blocks >= 0,
     sb |-> [time |-> s.time, transaction |-> s.transaction_id,
             flags |-> IF s.needs_check THEN 1 ELSE -1,
             version |-> s.version,
             data_block_size |-> s.data_block_size,
             nr_data_blocks |-> s.nr_data_blocks]]

\* to_superblock_ir dumping an InCore superblock with its time bumped
to_superblock_ir_bumping_time(s) ==
    [ok |-> s.kind # "OnDisk" \/ s.sm_nr_blocks >= 0,
     sb |-> [time |-> IF s.kind = "OnDisk" THEN s.time ELSE s.time + 1,
             transaction |-> s.transaction_id,
             flags |-> IF s.needs_check THEN 1 ELSE -1,
             version |-> s.version,
             data_block_size |-> s.data_block_size,
             nr_data_blocks |-> IF s.kind = "OnDisk" THEN s.sm_nr_blocks
                                ELSE s.nr_data_blocks]]

\* to_superblock_ir: Err when the SMRoot of an OnDisk superblock does not
\* unpack; flags is Some(1) or None (-1); version is Some(version)
to_superblock_ir(s) ==
    IF s.kind = "OnDisk"
    THEN [ok |-> s.sm_nr_blocks >= 0,
          sb |-> [time |-> s.time, transaction |-> s.transaction_id,
                  flags |-> IF s.needs_check THEN 1 ELSE -1,
                  version |-> s.version,
                  data_block_size |-> s.data_block_size,
                  nr_data_blocks |-> s.sm_nr_blocks]]
    ELSE [ok |-> TRUE,
          sb |-> [time |-> s.time, transaction |-> s.transaction_id,
                  flags |-> IF s.needs_check THEN 1 ELSE -1,
                  version |-> s.version,
                  data_block_size |-> s.data_block_size,
                  nr_data_blocks |-> s.nr_data_blocks]]

\* the ir::Device with the creation time in the place of the snapshot time
DeviceIr_snap_from_creation(dev) ==
    [dev_id |-> dev.thin_id, mapped_blocks |-> dev.detail.mapped_blocks,
     transaction |-> dev.detail.transaction_id,
     creation_time |-> dev.detail.creation_time,
     snap_time |-> dev.detail.creation_time]

\* the ir::Device dump_metadata builds for a device of the model
DeviceIr(dev) ==
    [dev_id |-> dev.thin_id, mapped_blocks |-> dev.detail.mapped_blocks,
     transaction |-> dev.detail.transaction_id,
     creation_time |-> dev.detail.creation_time,
     snap_time |-> dev.detail.snapshotted_time]

\* the groups of the two loops of dump_metadata
Groups(ph) == IF ph = "defs" THEN md.defs ELSE md.devs

\* mutant: the loop runs over the groups from the last to the first
GroupAt_reversed(ph, i) == Groups(ph)[Len(Groups(ph)) - i + 1]

\* for d in &md.defs / for dev in &md.devs: the group of turn i
GroupAt(ph, i) == Groups(ph)[i]

\* mutant: the devices are dumped before the definitions
FirstPhase_devs_first == "devs"

\* the loop dump_metadata runs first
FirstPhase == "defs"

LastPhase == IF FirstPhase = "defs" THEN "devs" ELSE "defs"

\* the position after the groups ph[1..i-1]: the next group of the loop, or
\* the first group of the second loop, or the end of both
Position(ph, i) ==
    IF i <= Len(Groups(ph)) THEN [phase |-> ph, idx |-> i]
    ELSE IF ph = FirstPhase /\ Len(Groups(LastPhase)) > 0
         THEN [phase |-> LastPhase, idx |-> 1]
         ELSE [phase |-> "end", idx |-> 1]

BeginEv(ph, g) ==
    IF ph = "defs"
    THEN Ev("def_shared_b", Format(g.def_id), NoRun, NoDev, NoSb)
    ELSE Ev("device_b", NoName, NoRun, DeviceIr(g), NoSb)

\* mutant: a device is closed with the event that closes a definition
EndEv_always_def(ph) == Ev("def_shared_e", NoName, NoRun, NoDev, NoSb)

EndEv(ph) ==
    IF ph = "defs"
    THEN Ev("def_shared_e", NoName, NoRun, NoDev, NoSb)
    ELSE Ev("device_e", NoName, NoRun, NoDev, NoSb)

\* let str = format!("{}", id)
RefName(id) == Format(id)

\* mutant: a reference does not wait for the leaves before it
RefNeedsFlush_never(lv) == FALSE

\* emit_entries: leaves collected before a Ref are emitted before it
RefNeedsFlush(lv) == lv # <<>>

\* the entries emit_entries is called with
Entries == GroupAt(phase, idx).entries

\* mutant: the results of read_many come in the reverse order of the request
FirstChunk_reversed(blocks, n) ==
    LET k == IF Len(blocks) < n THEN Len(blocks) ELSE n
    IN  [i \in 1..k |-> blocks[k - i + 1]]

\* blocks.chunks(batch_size): the first chunk of the blocks left, which
\* read_many answers position by position
FirstChunk(blocks, n) ==
    SubSeq(blocks, 1, IF Len(blocks) < n THEN Len(blocks) ELSE n)

\* chunks that leave out the block after each chunk
RestChunks_skipping(blocks, n) ==
    SubSeq(blocks, (IF Len(blocks) < n THEN Len(blocks) ELSE n) + 2,
           Len(blocks))

\* blocks.chunks(batch_size): the blocks after the first chunk
RestChunks(blocks, n) ==
    SubSeq(blocks, (IF Len(blocks) < n THEN Len(blocks) ELSE n) + 1,
           Len(blocks))

-----------------------------------------------------------------------------
(* commands/utils.rs: what the command-line helpers are given *)

\* an input path: whether its size can be obtained and it can be opened, its
\* size in bytes and its first bytes (as many as the model looks at)
File(stat_ok, open_ok, size, head) ==
    [stat_ok |-> stat_ok, open_ok |-> open_ok, size |-> size, head |-> head]

NoFile == File(FALSE, FALSE, 0, <<>>)

\* anyhow::Result<T>: Ok, or an error with its chain of causes, outermost
\* first; the root cause is the last of the chain
OkResult == [ok |-> TRUE, chain |-> <<>>]

ErrResult(chain) == [ok |-> FALSE, chain |-> chain]

\* Result<&Path> of a check: not called, Ok(input_file) or Err(msg)
NoVerdict == [called |-> FALSE, ok |-> FALSE, msg |-> ""]

Accept == [called |-> TRUE, ok |-> TRUE, msg |-> ""]

Reject(msg) == [called |-> TRUE, ok |-> FALSE, msg |-> msg]

-----------------------------------------------------------------------------
(* thin/dump.rs: what dump_with_formatter is given *)

\* Option<u64>::None of a superblock override
None == -1

\* ThinDumpOptions: repair, engine_opts.use_metadata_snap, the three
\* overrides and the output format ("none": dump_metadata is called with a
\* sink of its caller's)
ThinDumpOptions(repair, snap, tid, dbs, nr, format) ==
    [repair |-> repair, use_metadata_snap |-> snap, transaction_id |-> tid,
     data_block_size |-> dbs, nr_data_blocks |-> nr, format |-> format]

NoOpts == ThinDumpOptions(FALSE, FALSE, None, None, None, "none")

\* the metadata device: the superblock the pool wrote at block 0 and what
\* has happened to that block since ("healthy", "stale": only the mapping
\* root was overwritten, "destroyed": the block no longer reads as a
\* superblock), and the location of the metadata snapshot the pool recorded
\* in it (0: no snapshot)
MetadataDevice(state, s, snap) ==
    [state |-> state, sb |-> s, metadata_snap |-> snap]

NoDevice == MetadataDevice("none", NoSb, 0)

-----------------------------------------------------------------------------
(* pdata/space_map/allocated_blocks.rs: what allocated_blocks is given *)

\* the space map on disk: whether the block at sm_root reads, nr_blocks, the
\* locations of the bitmaps listed in the index, and what unpacks from the
\* block at each location (<<>>: the block does not read or unpack)
SpaceMap(root_ok, nr_blocks, index, bitmaps) ==
    [root_ok |-> root_ok, nr_blocks |-> nr_blocks, index |-> index,
     bitmaps |-> bitmaps]

NoSpaceMap == SpaceMap(FALSE, 0, <<>>, <<>>)

SmIdle ==
    /\ sm = NoSpaceMap
    /\ infos = <<>>
    /\ bits = {}

\* thin/migrate/base.rs: what migrate is given and what it opens
NotOpen == {"not open"}
NoFlags == {}
ExclDirect == {"O_EXCL", "O_DIRECT"}

ThinMigrateOptions(kind, create, buffer_size) ==
    [dest |-> kind, create |-> create, buffer_size |-> buffer_size]

\* Source: the thin device, its length and the pool's data block size in
\* sectors, the chunks of its stream, the flags of the open file
Source(len, block_size, chunks, flags) ==
    [len |-> len, block_size |-> block_size, chunks |-> chunks,
     flags |-> flags]

\* the destination: its length (None: no such file), the flags of the
\* open file, the blocks the copier wrote
Dest(len, flags, written) ==
    [len |-> len, flags |-> flags, written |-> written]

CopyOpBatcher_new(batch_size) == [batch_size |-> batch_size, ops |-> <<>>]

\* mpsc::sync_channel: the batches queued, and whether the SyncSender and
\* the Receiver are alive
Channel(queue, tx, rx) == [queue |-> queue, tx |-> tx, rx |-> rx]

\* the copier thread
Copier(state, ops) == [state |-> state, ops |-> ops]

NoRange == [b |-> 0, end |-> 0]

MgIdle ==
    /\ migrate_opts = ThinMigrateOptions("none", FALSE, None)
    /\ source = Source(0, 0, <<>>, NotOpen)
    /\ dest = Dest(None, NotOpen, {})
    /\ dest0 = Dest(None, NotOpen, {})
    /\ stream = <<>>
    /\ range = NoRange
    /\ batcher = CopyOpBatcher_new(0)
    /\ channel = Channel(<<>>, FALSE, FALSE)
    /\ copier = Copier("not started", <<>>)
    /\ pushed = <<>>

MvIdle ==
    /\ mutex = 0
    /\ visitors = <<>>
    /\ trace = <<>>

\* nothing outside thin_dump is running
ExtIdle == SmIdle /\ MgIdle /\ MvIdle

-----------------------------------------------------------------------------
(* The sink: a MetadataVisitor whose callbacks return Continue, Stop or Err *)

\* What the sink may answer to the next callback.  A sink that has answered
\* Stop has stopped: it answers Stop to every later callback.  The second
\* execution meets the sink of the first: the same answers at the same
\* callbacks.  The sink dump() builds from opts.format is a writer over the
\* output file: it answers Continue to every callback.
SinkResponses ==
    LET n == Len(out) + 1
    IN  IF opts.format # "none"
        THEN {"Continue"}
        ELSE
        IF exec = 2
        THEN IF first.failAt = n THEN {"Err"}
             ELSE IF first.stopAt # 0 /\ n >= first.stopAt THEN {"Stop"}
             ELSE {"Continue"}
        ELSE IF stopAt # 0 THEN {"Stop"}
             ELSE {"Continue", "Stop", "Err"}

\* the callback e is made and answered resp
Deliver(e, resp) ==
    /\ out' = Append(out, e)
    /\ origin' = Append(origin, leafNo)
    /\ stopAt' = IF resp = "Stop" /\ stopAt = 0 THEN Len(out) + 1 ELSE stopAt
    /\ failAt' = IF resp = "Err" THEN Len(out) + 1 ELSE failAt

\* the ? after a callback: an Err ends dump_metadata, Ok(Continue) and
\* Ok(Stop) alike do not
IsErr(resp) == resp = "Err"

NoDeliver == UNCHANGED <<out, origin, stopAt, failAt>>

\* dump_metadata returns Err(msg): the ? operator
Fail(msg) ==
    /\ pc' = "done"
    /\ result' = "err"
    /\ error' = msg

\* dump_metadata goes on at position p
Goto(p) ==
    /\ pc' = p
    /\ UNCHANGED <<result, error>>

inputVars == <<md, sb, batch, exec, first, inputs>>

-----------------------------------------------------------------------------
(* dump_metadata: the steps *)

\* to_superblock_ir(sb)?; out.superblock_b(&out_sb)?
Start ==
    /\ pc = "start"
    /\ LET r == to_superblock_ir(sb)
       IN  IF ~r.ok
           THEN /\ Fail("unpack SMRoot")
                /\ NoDeliver
                /\ UNCHANGED <<phase, idx>>
           ELSE \E resp \in SinkResponses :
                  /\ Deliver(Ev("superblock_b", NoName, NoRun, NoDev, r.sb),
                             resp)
                  /\ IF IsErr(resp)
                     THEN Fail("output error") /\ UNCHANGED <<phase, idx>>
                     ELSE /\ Goto("group")
                          /\ phase' = Position(FirstPhase, 1).phase
                          /\ idx' = Position(FirstPhase, 1).idx
    /\ UNCHANGED cliVars
    /\ UNCHANGED <<inputVars, damage, ei, leaves, todo, chunk, cur, run, ret,
                   leafNo, fault>>

\* out.def_shared_b(&format!("{}", d.def_id))? / out.device_b(&device)?
GroupBegin ==
    /\ pc = "group"
    /\ phase # "end"
    /\ \E resp \in SinkResponses :
          /\ Deliver(BeginEv(phase, GroupAt(phase, idx)), resp)
          /\ IF IsErr(resp)
             THEN Fail("output error") /\ UNCHANGED <<ei, leaves>>
             ELSE /\ Goto("entries")
                  /\ ei' = 1
                  /\ leaves' = <<>>
    /\ UNCHANGED cliVars
    /\ UNCHANGED <<inputVars, damage, phase, idx, todo, chunk, cur, run, ret,
                   leafNo, fault>>

\* emit_entries: Entry::Leaf(b) => leaves.push(*b)
EntryLeaf ==
    /\ pc = "entries"
    /\ ei <= Len(Entries)
    /\ Entries[ei].tag = "Leaf"
    /\ leaves' = Append(leaves, Entries[ei].v)
    /\ ei' = ei + 1
    /\ Goto("entries")
    /\ NoDeliver
    /\ UNCHANGED cliVars
    /\ UNCHANGED <<inputVars, damage, phase, idx, todo, chunk, cur, run, ret,
                   leafNo, fault>>

\* emit_leaves(engine, out, leaves): MappingVisitor::new, then read_for
CallEmitLeaves ==
    /\ todo' = leaves
    /\ chunk' = <<>>
    /\ cur' = <<>>
    /\ run' = RunBuilder_new
    /\ Goto("read")
    /\ NoDeliver
    /\ UNCHANGED cliVars
    /\ UNCHANGED <<inputVars, damage, phase, idx, ei, leaves, ret, leafNo,
                   fault>>

\* emit_entries: Entry::Ref(id) with leaves collected: they are emitted first
EntryRefFlush ==
    /\ pc = "entries"
    /\ ei <= Len(Entries)
    /\ Entries[ei].tag = "Ref"
    /\ RefNeedsFlush(leaves)
    /\ CallEmitLeaves

\* emit_entries: Entry::Ref(id): out.ref_shared(&format!("{}", id))?
EntryRef ==
    /\ pc = "entries"
    /\ ei <= Len(Entries)
    /\ Entries[ei].tag = "Ref"
    /\ ~RefNeedsFlush(leaves)
    /\ \E resp \in SinkResponses :
          /\ Deliver(Ev("ref_shared", RefName(Entries[ei].v), NoRun, NoDev,
                        NoSb), resp)
          /\ IF IsErr(resp)
             THEN Fail("output error") /\ UNCHANGED ei
             ELSE Goto("entries") /\ ei' = ei + 1
    /\ UNCHANGED cliVars
    /\ UNCHANGED <<inputVars, damage, phase, idx, leaves, todo, chunk, cur,
                   run, ret, leafNo, fault>>

\* emit_entries: after the loop, the leaves collected are emitted
EntriesEndFlush ==
    /\ pc = "entries"
    /\ ei > Len(Entries)
    /\ leaves # <<>>
    /\ CallEmitLeaves

\* out.def_shared_e()? / out.device_e()?, and the loop goes on
GroupEnd ==
    /\ pc = "entries"
    /\ ei > Len(Entries)
    /\ leaves = <<>>
    /\ \E resp \in SinkResponses :
          /\ Deliver(EndEv(phase), resp)
          /\ IF IsErr(resp)
             THEN Fail("output error") /\ UNCHANGED <<phase, idx>>
             ELSE /\ Goto("group")
                  /\ phase' = Position(phase, idx + 1).phase
                  /\ idx' = Position(phase, idx + 1).idx
    /\ UNCHANGED cliVars
    /\ UNCHANGED <<inputVars, damage, ei, leaves, todo, chunk, cur, run, ret,
                   leafNo, fault>>

\* read_for: engine.read_many(cs) of the next chunk
ReadMany ==
    /\ pc = "read"
    /\ chunk = <<>>
    /\ todo # <<>>
    /\ chunk' = FirstChunk(todo, batch)
    /\ todo' = RestChunks(todo, batch)
    /\ Goto("read")
    /\ NoDeliver
    /\ UNCHANGED cliVars
    /\ UNCHANGED <<inputVars, damage, phase, idx, ei, leaves, cur, run, ret,
                   leafNo, fault>>

\* read_for: engine.read_many(cs) fails as a whole
ReadManyFails ==
    /\ pc = "read"
    /\ chunk = <<>>
    /\ todo # <<>>
    /\ fault' = TRUE
    /\ Fail("read_many failed")
    /\ NoDeliver
    /\ UNCHANGED cliVars
    /\ UNCHANGED <<inputVars, damage, phase, idx, ei, leaves, todo, chunk,
                   cur, run, ret, leafNo>>

\* the error a damaged block ends the dump with
DamageError(k) ==
    CASE k = "read"     -> "read of individual block failed"
      [] k = "checksum" -> "checksum failed for node"
      [] k = "unpack"   -> "unpack_node failed"
      [] OTHER          -> "block is not a leaf"

\* a read_for / emit_leaf that takes a block that cannot be read, fails
\* its checksum, does not unpack or is an internal node for a leaf
BlockFails_unverified ==
    /\ pc = "read"
    /\ chunk # <<>>
    /\ Disk(Head(chunk)).kind = "damaged"
    /\ \E k \in (IF damage = "unknown" THEN DamageKinds ELSE {damage}) :
          damage' = k
    /\ chunk' = Tail(chunk)
    /\ cur' = <<>>
    /\ leafNo' = leafNo + 1
    /\ Goto("read")
    /\ NoDeliver
    /\ UNCHANGED cliVars
    /\ UNCHANGED <<inputVars, phase, idx, ei, leaves, todo, run, ret, fault>>

\* read_for / emit_leaf: the next block of the chunk cannot be read, fails
\* its checksum, does not unpack or is an internal node
BlockFails ==
    /\ pc = "read"
    /\ chunk # <<>>
    /\ Disk(Head(chunk)).kind = "damaged"
    /\ \E k \in (IF damage = "unknown" THEN DamageKinds ELSE {damage}) :
          /\ damage' = k
          /\ Fail(DamageError(k))
    /\ NoDeliver
    /\ UNCHANGED cliVars
    /\ UNCHANGED <<inputVars, phase, idx, ei, leaves, todo, chunk, cur, run,
                   ret, leafNo, fault>>

\* read_for / emit_leaf: the next block of the chunk is a leaf: v.visit
EmitLeaf ==
    /\ pc = "read"
    /\ chunk # <<>>
    /\ Disk(Head(chunk)).kind = "leaf"
    /\ chunk' = Tail(chunk)
    /\ cur' = Disk(Head(chunk)).kvs
    /\ leafNo' = leafNo + 1
    /\ Goto(IF Disk(Head(chunk)).kvs = <<>> THEN "read" ELSE "visit")
    /\ NoDeliver
    /\ UNCHANGED cliVars
    /\ UNCHANGED <<inputVars, damage, phase, idx, ei, leaves, todo, run, ret,
                   fault>>

\* MappingVisitor::visit: one turn of the loop over the leaf's entries
Visit ==
    /\ pc = "visit"
    /\ LET kv == Head(cur)
           r == RunBuilder_next(run, kv.key, kv.block, kv.time)
       IN  /\ run' = r.run
           /\ ret' = r.ret
           /\ cur' = Tail(cur)
           /\ IF r.ret = NoRun
              THEN /\ NoDeliver
                   /\ Goto(IF Tail(cur) = <<>> THEN "read" ELSE "visit")
              ELSE \E resp \in SinkResponses :
                     /\ Deliver(MapEv(r.ret), resp)
                     /\ IF IsErr(resp)
                        THEN Fail("output error")
                        ELSE Goto(IF Tail(cur) = <<>> THEN "read"
                                  ELSE "visit")
    /\ UNCHANGED cliVars
    /\ UNCHANGED <<inputVars, damage, phase, idx, ei, leaves, todo, chunk,
                   leafNo, fault>>

\* MappingVisitor::end_walk, and emit_leaves returns to emit_entries
EndWalk ==
    /\ pc = "read"
    /\ chunk = <<>>
    /\ todo = <<>>
    /\ LET r == RunBuilder_complete(run)
       IN  /\ run' = r.run
           /\ ret' = r.ret
           /\ IF r.ret = NoRun
              THEN NoDeliver /\ Goto("entries") /\ leaves' = <<>>
              ELSE \E resp \in SinkResponses :
                     /\ Deliver(MapEv(r.ret), resp)
                     /\ IF IsErr(resp)
                        THEN Fail("output error") /\ UNCHANGED leaves
                        ELSE Goto("entries") /\ leaves' = <<>>
    /\ UNCHANGED cliVars
    /\ UNCHANGED <<inputVars, damage, phase, idx, ei, todo, chunk, cur,
                   leafNo, fault>>

\* out.superblock_e()?
SuperblockEnd ==
    /\ pc = "group"
    /\ phase = "end"
    /\ \E resp \in SinkResponses :
          /\ Deliver(Ev("superblock_e", NoName, NoRun, NoDev, NoSb), resp)
          /\ IF IsErr(resp) THEN Fail("output error") ELSE Goto("eof")
    /\ UNCHANGED cliVars
    /\ UNCHANGED <<inputVars, damage, phase, idx, ei, leaves, todo, chunk,
                   cur, run, ret, leafNo, fault>>

\* out.eof()?; Ok(())
Eof ==
    /\ pc = "eof"
    /\ \E resp \in SinkResponses :
          /\ Deliver(Ev("eof", NoName, NoRun, NoDev, NoSb), resp)
          /\ IF IsErr(resp)
             THEN Fail("output error")
             ELSE pc' = "done" /\ result' = "ok" /\ UNCHANGED error
    /\ UNCHANGED cliVars
    /\ UNCHANGED <<inputVars, damage, phase, idx, ei, leaves, todo, chunk,
                   cur, run, ret, leafNo, fault>>

\* dump_metadata is called again: the same superblock, model, disk and sink,
\* an engine of another batch size (after a run the engine did not fail)
Rerun ==
    /\ pc = "done"
    /\ exec = 1
    /\ ~fault
    /\ exec' = 2
    /\ first' = [out |-> out, result |-> result, error |-> error,
                 stopAt |-> stopAt, failAt |-> failAt]
    /\ batch' \in BatchSizes \ {batch}
    /\ pc' = "start"
    /\ phase' = FirstPhase
    /\ idx' = 1
    /\ ei' = 1
    /\ leaves' = <<>>
    /\ todo' = <<>>
    /\ chunk' = <<>>
    /\ cur' = <<>>
    /\ run' = RunBuilder_new
    /\ ret' = NoRun
    /\ out' = <<>>
    /\ origin' = <<>>
    /\ leafNo' = 0
    /\ stopAt' = 0
    /\ failAt' = 0
    /\ result' = "running"
    /\ error' = ""
    /\ UNCHANGED <<md, sb, damage, inputs, fault, cliVars>>

NoFirst == [out |-> <<>>, result |-> "running", error |-> "",
            stopAt |-> 0, failAt |-> 0]

Init ==
    /\ md \in Models
    /\ sb \in Superblocks
    /\ batch \in BatchSizes
    /\ damage = "unknown"
    /\ pc = "start"
    /\ phase = FirstPhase
    /\ idx = 1
    /\ ei = 1
    /\ leaves = <<>>
    /\ todo = <<>>
    /\ chunk = <<>>
    /\ cur = <<>>
    /\ run = RunBuilder_new
    /\ ret = NoRun
    /\ inputs = <<>>
    /\ out = <<>>
    /\ origin = <<>>
    /\ leafNo = 0
    /\ stopAt = 0
    /\ failAt = 0
    /\ result = "running"
    /\ error = ""
    /\ exec = 1
    /\ first = NoFirst
    /\ fault = FALSE
    /\ file = NoFile
    /\ res = OkResult
    /\ exit_code = -1
    /\ fatal = <<>>
    /\ verdict = NoVerdict
    /\ opts = NoOpts
    /\ device = NoDevice
    /\ ExtIdle

Next ==
    \/ Start
    \/ GroupBegin
    \/ EntryLeaf
    \/ EntryRefFlush
    \/ EntryRef
    \/ EntriesEndFlush
    \/ GroupEnd
    \/ ReadMany
    \/ ReadManyFails
    \/ BlockFails
    \/ EmitLeaf
    \/ Visit
    \/ EndWalk
    \/ SuperblockEnd
    \/ Eof
    \/ Rerun

Spec == Init /\ [][Next]_vars

-----------------------------------------------------------------------------
(* The run builder alone, driven as MappingVisitor drives it *)

Entry3(t, d, tm) == [thin_block |-> t, data_block |-> d, time |-> tm]

\* MappingVisitor::visit, one entry: builder.next, and md_out.map of the run
\* it returns
RB_Next ==
    /\ pc = "rb"
    /\ Len(inputs) < MaxInputs
    /\ \E t \in ThinBlocks, d \in DataBlocks, tm \in Times :
          LET r == RunBuilder_next(run, t, d, tm)
          IN  /\ run' = r.run
              /\ ret' = r.ret
              /\ inputs' = Append(inputs, Entry3(t, d, tm))
              /\ out' = IF r.ret = NoRun THEN out ELSE Append(out, MapEv(r.ret))
    /\ UNCHANGED cliVars
    /\ UNCHANGED <<md, sb, batch, damage, pc, phase, idx, ei, leaves, todo,
                   chunk, cur, origin, leafNo, stopAt, failAt, result, error,
                   exec, first, fault>>

\* MappingVisitor::end_walk: builder.complete, and md_out.map of the run it
\* returns
RB_Complete ==
    /\ pc \in {"rb", "rb_done"}
    /\ LET r == RunBuilder_complete(run)
       IN  /\ run' = r.run
           /\ ret' = r.ret
           /\ out' = IF r.ret = NoRun THEN out ELSE Append(out, MapEv(r.ret))
    /\ pc' = "rb_done"
    /\ UNCHANGED cliVars
    /\ UNCHANGED <<md, sb, batch, damage, phase, idx, ei, leaves, todo, chunk,
                   cur, inputs, origin, leafNo, stopAt, failAt, result, error,
                   exec, first, fault>>

InitRB ==
    /\ md = [defs |-> <<>>, devs |-> <<>>]
    /\ sb \in {s \in Superblocks : s.kind = "InCore"}
    /\ batch = 1
    /\ damage = "unknown"
    /\ pc = "rb"
    /\ phase = FirstPhase
    /\ idx = 1
    /\ ei = 1
    /\ leaves = <<>>
    /\ todo = <<>>
    /\ chunk = <<>>
    /\ cur = <<>>
    /\ run = RunBuilder_new
    /\ ret = NoRun
    /\ inputs = <<>>
    /\ out = <<>>
    /\ origin = <<>>
    /\ leafNo = 0
    /\ stopAt = 0
    /\ failAt = 0
    /\ result = "running"
    /\ error = ""
    /\ exec = 1
    /\ first = NoFirst
    /\ fault = FALSE
    /\ file = NoFile
    /\ res = OkResult
    /\ exit_code = -1
    /\ fatal = <<>>
    /\ verdict = NoVerdict
    /\ opts = NoOpts
    /\ device = NoDevice
    /\ ExtIdle

NextRB ==
    \/ RB_Next
    \/ RB_Complete

SpecRB == InitRB /\ [][NextRB]_vars

-----------------------------------------------------------------------------
(* commands/utils.rs: to_exit_code, check_file_not_tiny, check_not_xml *)

\* the longest chain of causes of an error
MaxChain == 2

\* exitcode::OK and exitcode::USAGE
OK == 0
USAGE == 64

\* check_file_not_tiny: the smallest size accepted
MinFileSize == 4096

\* is_xml_file: vec![0; 16]
ProbeLen == 16

IoKinds == {"BrokenPipe", "NotFound", "Other"}

\* one error of a chain: std::io::Error, Arc<std::io::Error> (as
\* quick_xml::Error::Io wraps it) or any other error type
IoError(kind) == [type |-> "io", kind |-> kind]
ArcIoError(kind) == [type |-> "arc_io", kind |-> kind]
OtherError == [type |-> "other", kind |-> "none"]

Errors ==
    {IoError(k) : k \in IoKinds} \cup {ArcIoError(k) : k \in IoKinds}
        \cup {OtherError}

\* the results to_exit_code may be given
Results ==
    {OkResult} \cup
    {ErrResult(c) : c \in UNION {[1..n -> Errors] : n \in 1..MaxChain}}

\* e.root_cause()
root_cause(e) == e.chain[Len(e.chain)]

\* mutant: only a bare io::Error is looked for, not one wrapped in an Arc
is_broken_pipe_no_arc(rc) == rc.type = "io" /\ rc.kind = "BrokenPipe"

\* to_exit_code: downcast_ref::<Arc<io::Error>>, else
\* downcast_ref::<io::Error>, and then err.kind() == BrokenPipe
is_broken_pipe(rc) ==
    LET err == IF rc.type = "arc_io" THEN [some |-> TRUE, kind |-> rc.kind]
               ELSE IF rc.type = "io" THEN [some |-> TRUE, kind |-> rc.kind]
               ELSE [some |-> FALSE, kind |-> "none"]
    IN  err.some /\ err.kind = "BrokenPipe"

\* the line given to report.fatal: "{e}: {root_cause}" or "{e}"
FatalLine(e) ==
    IF Len(e.chain) > 1 THEN <<e.chain[1], root_cause(e)>>
    ELSE <<e.chain[1]>>

\* mutant: a broken pipe is not an error of the command
to_exit_code_pipe_ok(r) ==
    IF ~r.ok
    THEN [fatal |-> IF ~is_broken_pipe(root_cause(r))
                    THEN <<FatalLine(r)>> ELSE <<>>,
          code |-> IF is_broken_pipe(root_cause(r)) THEN OK ELSE USAGE]
    ELSE [fatal |-> <<>>, code |-> OK]

\* mutant: the two exit codes are swapped
to_exit_code_swapped(r) ==
    IF ~r.ok
    THEN [fatal |-> IF ~is_broken_pipe(root_cause(r))
                    THEN <<FatalLine(r)>> ELSE <<>>,
          code |-> OK]
    ELSE [fatal |-> <<>>, code |-> USAGE]

\* to_exit_code: what is reported, and the exit code returned
to_exit_code(r) ==
    IF ~r.ok
    THEN [fatal |-> IF ~is_broken_pipe(root_cause(r))
                    THEN <<FatalLine(r)>> ELSE <<>>,
          code |-> USAGE]
    ELSE [fatal |-> <<>>, code |-> OK]

\* mutant: the boundary is one byte off
check_file_not_tiny_off_by_one(f) ==
    IF ~f.stat_ok THEN Reject("Couldn't get file size")
    ELSE IF f.size <= MinFileSize
         THEN Reject("Metadata device/file too small")
         ELSE Accept

\* check_file_not_tiny: Ok(0..=4095) => Err, Ok(4096..) => Ok, Err(e) => Err
check_file_not_tiny(f) ==
    IF ~f.stat_ok THEN Reject("Couldn't get file size")
    ELSE IF f.size <= MinFileSize - 1
         THEN Reject("Metadata device/file too small")
         ELSE Accept

StartsWith(line, p) == Len(line) >= Len(p) /\ SubSeq(line, 1, Len(p)) = p

XmlSuperblock == <<"<", "s", "u", "p", "e", "r", "b", "l", "o", "c", "k">>
XmlDecl == <<"?", "x", "m", "l">>
XmlDoctype == <<"<", "!", "D", "O", "C", "T", "Y", "P", "E">>

\* is_xml
is_xml(line) ==
    \/ StartsWith(line, XmlSuperblock)
    \/ StartsWith(line, XmlDecl)
    \/ StartsWith(line, XmlDoctype)

\* mutant: read instead of read_exact: a short file is looked at as well
is_xml_file_short_read(f) ==
    IF ~f.open_ok THEN [ok |-> FALSE, xml |-> FALSE]
    ELSE [ok |-> TRUE,
          xml |-> is_xml(SubSeq(f.head, 1,
                     IF f.size < ProbeLen THEN f.size ELSE ProbeLen))]

\* is_xml_file: open, read_exact of 16 bytes, is_xml
is_xml_file(f) ==
    IF ~f.open_ok THEN [ok |-> FALSE, xml |-> FALSE]
    ELSE IF f.size < ProbeLen THEN [ok |-> FALSE, xml |-> FALSE]
    ELSE [ok |-> TRUE, xml |-> is_xml(SubSeq(f.head, 1, ProbeLen))]

\* check_not_xml: Ok(true) => Err, _ => Ok(input_file)
check_not_xml(f) ==
    LET r == is_xml_file(f)
    IN  IF r.ok /\ r.xml THEN Reject("This looks like XML") ELSE Accept

\* the input files: sizes around the limits, contents that begin like XML,
\* nearly so, or not at all
FileSizes == {0, 4, 15, 16, 17, 4095, 4096, 4097}

Prefixes ==
    {XmlSuperblock, XmlDecl, XmlDoctype, <<"<">> \o XmlDecl,
     SubSeq(XmlSuperblock, 1, 10), <<>>}

\* the bytes the model keeps of a file
HeadLen == ProbeLen + 1

HeadOf(size, prefix) ==
    [i \in 1..(IF size < HeadLen THEN size ELSE HeadLen) |->
        IF i <= Len(prefix) THEN prefix[i] ELSE "x"]

Files ==
    {File(s, o, n, HeadOf(n, p)) :
        s \in BOOLEAN, o \in BOOLEAN, n \in FileSizes, p \in Prefixes}

\* to_exit_code(report, result)
ToExitCode ==
    /\ pc = "cli"
    /\ exit_code' = to_exit_code(res).code
    /\ fatal' = fatal \o to_exit_code(res).fatal
    /\ pc' = "to_exit_code"
    /\ UNCHANGED <<file, res, verdict, toolVars, extVars>>
    /\ UNCHANGED <<md, sb, batch, damage, phase, idx, ei, leaves, todo, chunk,
                   cur, run, ret, inputs, out, origin, leafNo, stopAt, failAt,
                   result, error, exec, first, fault>>

\* check_file_not_tiny(input_file)
CheckFileNotTiny ==
    /\ pc = "cli"
    /\ verdict' = check_file_not_tiny(file)
    /\ pc' = "check_file_not_tiny"
    /\ UNCHANGED <<file, res, exit_code, fatal, toolVars, extVars>>
    /\ UNCHANGED <<md, sb, batch, damage, phase, idx, ei, leaves, todo, chunk,
                   cur, run, ret, inputs, out, origin, leafNo, stopAt, failAt,
                   result, error, exec, first, fault>>

\* check_not_xml(input_file)
CheckNotXml ==
    /\ pc = "cli"
    /\ verdict' = check_not_xml(file)
    /\ pc' = "check_not_xml"
    /\ UNCHANGED <<file, res, exit_code, fatal, toolVars, extVars>>
    /\ UNCHANGED <<md, sb, batch, damage, phase, idx, ei, leaves, todo, chunk,
                   cur, run, ret, inputs, out, origin, leafNo, stopAt, failAt,
                   result, error, exec, first, fault>>

InitCli ==
    /\ md = [defs |-> <<>>, devs |-> <<>>]
    /\ sb \in {s \in Superblocks : s.kind = "InCore"}
    /\ batch = 1
    /\ damage = "unknown"
    /\ pc = "cli"
    /\ phase = FirstPhase
    /\ idx = 1
    /\ ei = 1
    /\ leaves = <<>>
    /\ todo = <<>>
    /\ chunk = <<>>
    /\ cur = <<>>
    /\ run = RunBuilder_new
    /\ ret = NoRun
    /\ inputs = <<>>
    /\ out = <<>>
    /\ origin = <<>>
    /\ leafNo = 0
    /\ stopAt = 0
    /\ failAt = 0
    /\ result = "running"
    /\ error = ""
    /\ exec = 1
    /\ first = NoFirst
    /\ fault = FALSE
    /\ file \in Files
    /\ res \in Results
    /\ exit_code = -1
    /\ fatal = <<>>
    /\ verdict = NoVerdict
    /\ opts = NoOpts
    /\ device = NoDevice
    /\ ExtIdle

NextCli ==
    \/ ToExitCode
    \/ CheckFileNotTiny
    \/ CheckNotXml

SpecCli == InitCli /\ [][NextCli]_vars

-----------------------------------------------------------------------------
(* thin/dump.rs: dump_with_formatter, the superblock thin_dump dumps *)

\* the superblocks a pool wrote: time 1 or 2, one transaction id, block
\* size and data device size
PoolTimes == {1, 2}

PoolSuperblocks ==
    {[kind |-> "OnDisk", time |-> t, transaction_id |-> 5,
      needs_check |-> FALSE, version |-> 2, data_block_size |-> 128,
      nr_data_blocks |-> 0, sm_nr_blocks |-> 1024] : t \in PoolTimes}

\* --transaction-id, --data-block-size, --nr-data-blocks: omitted, the
\* value the pool wrote, or another value
TransactionIds == {None, 5, 2345}
DataBlockSizes == {None, 128, 8192}
NrDataBlocks == {None, 1024, 234500}

DeviceStates == {"healthy", "stale", "destroyed"}

\* the options of a thin_dump that writes XML: with or without --repair,
\* with overrides or with -m
ToolOptions ==
    {ThinDumpOptions(r, FALSE, t, d, n, "xml") :
        r \in BOOLEAN, t \in TransactionIds, d \in DataBlockSizes,
        n \in NrDataBlocks} \cup
    {ThinDumpOptions(r, TRUE, None, None, None, "xml") : r \in BOOLEAN}

PlainDump == ThinDumpOptions(FALSE, FALSE, None, None, None, "xml")

\* where the pool put the superblock of its metadata snapshot
SnapLocations == {0, 7}

\* the superblock of the metadata snapshot: the pool's superblock as it was
\* one transaction earlier
SnapSuperblock(s) ==
    [s EXCEPT !.transaction_id = @ - 1, !.time = @ - 1]

Max(a, b) == IF a >= b THEN a ELSE b

\* the largest element of a finite set of numbers, dflt when it is empty
MaxOf(S, dflt) == IF S = {} THEN dflt ELSE CHOOSE x \in S : \A y \in S : y <= x

\* read_superblock: Err when block 0 does not read as a superblock
read_superblock(d) ==
    IF d.state = "destroyed"
    THEN [ok |-> FALSE, sb |-> d.sb, err |-> "bad checksum in superblock"]
    ELSE [ok |-> TRUE, sb |-> d.sb, err |-> ""]

\* read_superblock_snap: the superblock at the location the superblock at
\* block 0 records, Err when block 0 does not read or records none
read_superblock_snap(d) ==
    LET r == read_superblock(d)
    IN  IF ~r.ok THEN r
        ELSE IF d.metadata_snap = 0
        THEN [r EXCEPT !.ok = FALSE, !.err = "no current metadata snap"]
        ELSE [r EXCEPT !.sb = SnapSuperblock(d.sb)]

\* Superblock::overrides: a supplied value replaces the field; the number
\* of data blocks lives in the data space map root
overrides(s, o) ==
    [s EXCEPT
       !.transaction_id =
           IF o.transaction_id # None THEN o.transaction_id ELSE @,
       !.data_block_size =
           IF o.data_block_size # None THEN o.data_block_size ELSE @,
       !.sm_nr_blocks =
           IF o.nr_data_blocks # None THEN o.nr_data_blocks ELSE @]

\* the largest snapshotted_time of the devices of m (-1: no device)
MaxSnapshottedTime(m) ==
    MaxOf({m.devs[i].detail.snapshotted_time : i \in 1..Len(m.devs)}, -1)

\* what repair recovers from the trees when nothing else tells it: a
\* transaction id later than every device's, and the number of data blocks
\* the mappings need
RecoveredTransactionId(m) ==
    1 + MaxOf({m.devs[i].detail.transaction_id : i \in 1..Len(m.devs)}, 0)

RecoveredNrDataBlocks(m) ==
    LET es == AllEntries(m)
    IN  1 + MaxOf(UNION {{Disk(l).kvs[i].block : i \in 1..Len(Disk(l).kvs)} :
                            l \in LeavesOf(es)}, -1)

\* the timestamp of a rebuilt superblock: max(sb.time, snapshotted + 1)
rebuilt_time(existing, m) == Max(existing, MaxSnapshottedTime(m) + 1)

DataBlockSizeNeeded ==
    "data block size needs to be provided due to corruption in the superblock"

\* rebuild_superblock: each field is the override, else the field of the
\* superblock that still reads, else what the trees tell; nothing tells the
\* data block size
rebuild_superblock(d, m, o) ==
    LET ref == read_superblock(d)
        pick(ov, kept, found) ==
            IF ov # None THEN ov ELSE IF ref.ok THEN kept ELSE found
        dbs == pick(o.data_block_size, d.sb.data_block_size, None)
    IN  IF dbs = None
        THEN [ok |-> FALSE, sb |-> d.sb, err |-> DataBlockSizeNeeded]
        ELSE [ok |-> TRUE, err |-> "",
              sb |-> [kind |-> "InCore",
                      time |-> rebuilt_time(IF ref.ok THEN d.sb.time ELSE 0,
                                            m),
                      transaction_id |->
                          pick(o.transaction_id, d.sb.transaction_id,
                               RecoveredTransactionId(m)),
                      needs_check |-> FALSE,
                      version |-> 2,
                      data_block_size |-> dbs,
                      nr_data_blocks |->
                          pick(o.nr_data_blocks, d.sb.sm_nr_blocks,
                               RecoveredNrDataBlocks(m)),
                      sm_nr_blocks |-> -1]]

\* read_or_rebuild_superblock: the superblock as it is on disk when it
\* reads and its roots are good, a rebuilt one otherwise
read_or_rebuild_superblock(d, m, o) ==
    IF d.state = "healthy"
    THEN [ok |-> TRUE, sb |-> overrides(d.sb, o), err |-> ""]
    ELSE rebuild_superblock(d, m, o)

\* dump_with_formatter not handing the overrides to the repair
OpenSuperblock_no_overrides(o, d, m) ==
    IF o.repair
    THEN read_or_rebuild_superblock(d, m, NoOpts)
    ELSE IF o.use_metadata_snap
    THEN read_superblock_snap(d)
    ELSE LET r == read_superblock(d)
         IN  IF r.ok THEN [r EXCEPT !.sb = overrides(r.sb, o)] ELSE r

\* dump_with_formatter reading the superblock as a plain dump does
OpenSuperblock_never_repairs(o, d, m) ==
    IF o.use_metadata_snap
    THEN read_superblock_snap(d)
    ELSE LET r == read_superblock(d)
         IN  IF r.ok THEN [r EXCEPT !.sb = overrides(r.sb, o)] ELSE r

\* dump_with_formatter without the branch of the metadata snapshot
OpenSuperblock_no_snap(o, d, m) ==
    IF o.repair
    THEN read_or_rebuild_superblock(d, m, o)
    ELSE LET r == read_superblock(d)
         IN  IF r.ok THEN [r EXCEPT !.sb = overrides(r.sb, o)] ELSE r

\* dump_with_formatter: let sb = if opts.repair { .. } else { .. }
OpenSuperblock(o, d, m) ==
    IF o.repair
    THEN read_or_rebuild_superblock(d, m, o)
    ELSE IF o.use_metadata_snap
    THEN read_superblock_snap(d)
    ELSE LET r == read_superblock(d)
         IN  IF r.ok THEN [r EXCEPT !.sb = overrides(r.sb, o)] ELSE r

\* build_metadata_with_dev: the trees are walked from the roots of the
\* superblock; the mapping root of a stale superblock leads nowhere, the
\* roots of the snapshot's superblock and of a rebuilt one are good
build_metadata(o, s, d) ==
    IF /\ s.kind = "OnDisk"
       /\ d.state = "stale"
       /\ ~(o.use_metadata_snap /\ ~o.repair)
    THEN [ok |-> FALSE, err |-> "bad mapping root"]
    ELSE [ok |-> TRUE, err |-> ""]

dumpVars == <<damage, phase, idx, ei, leaves, todo, chunk, cur, run, ret,
              out, origin, leafNo, stopAt, failAt, fault>>

\* let sb = ..?
ReadSuperblock ==
    /\ pc = "open"
    /\ LET r == OpenSuperblock(opts, device, md)
       IN  IF r.ok
           THEN sb' = r.sb /\ Goto("build")
           ELSE sb' = sb /\ Fail(r.err)
    /\ UNCHANGED <<md, batch, exec, first, inputs, dumpVars, cliVars>>

\* let md = ..?; then dump_metadata(ctx.engine, out, &sb, &md)
BuildMetadata ==
    /\ pc = "build"
    /\ LET r == build_metadata(opts, sb, device)
       IN  IF r.ok THEN Goto("start") ELSE Fail(r.err)
    /\ UNCHANGED <<inputVars, dumpVars, cliVars>>

\* thin_dump is run again on the device whose plain dump succeeded, after
\* its superblock was left alone, made stale or destroyed, with or without
\* a metadata snapshot taken
RerunTool ==
    /\ pc = "done"
    /\ exec = 1
    /\ result = "ok"
    /\ exec' = 2
    /\ first' = [out |-> out, result |-> result, error |-> error,
                 stopAt |-> stopAt, failAt |-> failAt]
    /\ opts' \in ToolOptions
    /\ \E st \in DeviceStates : \E sn \in SnapLocations :
          device' = MetadataDevice(st, device.sb, sn)
    /\ pc' = "open"
    /\ phase' = FirstPhase
    /\ idx' = 1
    /\ ei' = 1
    /\ leaves' = <<>>
    /\ todo' = <<>>
    /\ chunk' = <<>>
    /\ cur' = <<>>
    /\ run' = RunBuilder_new
    /\ ret' = NoRun
    /\ out' = <<>>
    /\ origin' = <<>>
    /\ leafNo' = 0
    /\ stopAt' = 0
    /\ failAt' = 0
    /\ result' = "running"
    /\ error' = ""
    /\ UNCHANGED <<md, sb, batch, damage, inputs, fault>>
    /\ UNCHANGED <<file, res, exit_code, fatal, verdict, extVars>>

InitTool ==
    /\ md \in Models
    /\ device \in {MetadataDevice("healthy", s, 0) : s \in PoolSuperblocks}
    /\ sb = device.sb
    /\ opts = PlainDump
    /\ batch = 2
    /\ damage = "unknown"
    /\ pc = "open"
    /\ phase = FirstPhase
    /\ idx = 1
    /\ ei = 1
    /\ leaves = <<>>
    /\ todo = <<>>
    /\ chunk = <<>>
    /\ cur = <<>>
    /\ run = RunBuilder_new
    /\ ret = NoRun
    /\ inputs = <<>>
    /\ out = <<>>
    /\ origin = <<>>
    /\ leafNo = 0
    /\ stopAt = 0
    /\ failAt = 0
    /\ result = "running"
    /\ error = ""
    /\ exec = 1
    /\ first = NoFirst
    /\ fault = FALSE
    /\ file = NoFile
    /\ res = OkResult
    /\ exit_code = -1
    /\ fatal = <<>>
    /\ verdict = NoVerdict
    /\ ExtIdle

NextTool ==
    \/ ReadSuperblock
    \/ BuildMetadata
    \/ Start
    \/ GroupBegin
    \/ EntryLeaf
    \/ EntryRefFlush
    \/ EntryRef
    \/ EntriesEndFlush
    \/ GroupEnd
    \/ ReadMany
    \/ ReadManyFails
    \/ BlockFails
    \/ EmitLeaf
    \/ Visit
    \/ EndWalk
    \/ SuperblockEnd
    \/ Eof
    \/ RerunTool

SpecTool == InitTool /\ [][NextTool]_vars

-----------------------------------------------------------------------------
(* pdata/space_map/allocated_blocks.rs: allocated_blocks *)

\* the variables of thin_dump, which the other operations leave alone
thinVars == <<md, sb, batch, damage, phase, idx, ei, leaves, todo, chunk,
              cur, run, ret, inputs, out, origin, leafNo, stopAt, failAt,
              exec, first, fault>>

\* no thin_dump is running
ThinDumpIdle ==
    /\ md = [defs |-> <<>>, devs |-> <<>>]
    /\ sb \in {s \in Superblocks : s.kind = "InCore"}
    /\ batch = 1
    /\ damage = "unknown"
    /\ phase = FirstPhase
    /\ idx = 1
    /\ ei = 1
    /\ leaves = <<>>
    /\ todo = <<>>
    /\ chunk = <<>>
    /\ cur = <<>>
    /\ run = RunBuilder_new
    /\ ret = NoRun
    /\ inputs = <<>>
    /\ out = <<>>
    /\ origin = <<>>
    /\ leafNo = 0
    /\ stopAt = 0
    /\ failAt = 0
    /\ exec = 1
    /\ first = NoFirst
    /\ fault = FALSE
    /\ file = NoFile
    /\ res = OkResult
    /\ exit_code = -1
    /\ fatal = <<>>
    /\ verdict = NoVerdict
    /\ opts = NoOpts
    /\ device = NoDevice

\* SpecSm: number of bitmaps listed in the index
MaxBitmaps == 2

\* ENTRIES_PER_BITMAP and the range of the u32 a block number is cast to,
\* both scaled down
ENTRIES_PER_BITMAP == 2
U32Range == 16

\* the locations bitmap blocks are found at
BitmapLocs == {11, 12}

\* BitmapEntry: Small(0), Small(1), Small(2), Overflow (3)
BitmapEntries == {0, 1, 2, 3}

\* what Bitmap::unpack gives for a block: ENTRIES_PER_BITMAP entries, or
\* nothing (<<>>) when the block does not read or unpack
BitmapContents == {<<>>} \cup [1..ENTRIES_PER_BITMAP -> BitmapEntries]

\* the space maps of at most MaxBitmaps bitmaps: the index has one entry
\* per ENTRIES_PER_BITMAP blocks of nr_blocks
SpaceMaps ==
    {SpaceMap(r, nr, ix, bms) :
        r \in BOOLEAN,
        nr \in 0..(MaxBitmaps * ENTRIES_PER_BITMAP),
        ix \in UNION {[1..n -> BitmapLocs] : n \in 0..MaxBitmaps},
        bms \in [BitmapLocs -> BitmapContents]}

ValidSpaceMap(s) ==
    Len(s.index) =
        (s.nr_blocks + ENTRIES_PER_BITMAP - 1) \div ENTRIES_PER_BITMAP

\* indexes.iter().enumerate().map(|(key, entry)| IndexInfo { key, loc })
IndexInfos(index) ==
    [k \in 1..Len(index) |-> [key |-> k - 1, loc |-> index[k]]]

\* the IndexInfos of s whose loc is l, in the order of s
AtLoc(s, l) ==
    LET Test(x) == x.loc = l
    IN  SelectSeq(s, Test)

NotAtLoc(s, l) ==
    LET Test(x) == x.loc # l
    IN  SelectSeq(s, Test)

MinLoc(s) ==
    CHOOSE l \in {s[i].loc : i \in 1..Len(s)} :
        \A j \in 1..Len(s) : l <= s[j].loc

\* infos.sort_by(|lhs, rhs| lhs.loc.partial_cmp(&rhs.loc).unwrap()): a
\* stable sort by location, with the keys renumbered in the sorted order
RECURSIVE sort_by_loc_rekeyed(_)
sort_by_loc_rekeyed(s) ==
    IF s = <<>> THEN <<>>
    ELSE LET l == MinLoc(s)
             front == AtLoc(s, l)
             rest == sort_by_loc_rekeyed(NotAtLoc(s, l))
         IN  [k \in 1..Len(s) |->
                 [key |-> k - 1,
                  loc |-> IF k <= Len(front) THEN l
                          ELSE rest[k - Len(front)].loc]]

\* infos.sort_by(|lhs, rhs| lhs.loc.partial_cmp(&rhs.loc).unwrap()): a
\* stable sort by location
RECURSIVE sort_by_loc(_)
sort_by_loc(s) ==
    IF s = <<>> THEN <<>>
    ELSE LET l == MinLoc(s)
         IN  AtLoc(s, l) \o sort_by_loc(NotAtLoc(s, l))

\* (base + i as u64) as u32
AsU32(x) == x % U32Range

\* the inner loop: every entry but Small(0) inserts base + i
InsertEntries(bs, info, bm) ==
    LET base == info.key * ENTRIES_PER_BITMAP
    IN  bs \cup {AsU32(base + i) :
                   i \in {j \in 0..(Len(bm) - 1) : bm[j + 1] # 0}}

\* engine.read(sm_root)?; load_metadata_index(..)?; the infos, sorted
LoadIndex ==
    /\ pc = "allocated_blocks"
    /\ IF ~sm.root_ok
       THEN /\ Fail("index does not load")
            /\ UNCHANGED <<infos, bits>>
       ELSE /\ infos' = sort_by_loc(IndexInfos(sm.index))
            /\ bits' = {}
            /\ Goto("bitmaps")
    /\ UNCHANGED <<sm, thinVars, file, res, exit_code, fatal, verdict,
                   toolVars, mgVars, mvVars>>

\* one turn of for info in &infos
ReadBitmap ==
    /\ pc = "bitmaps"
    /\ infos # <<>>
    /\ LET info == Head(infos)
           bm == sm.bitmaps[info.loc]
       IN  IF bm = <<>>
           THEN /\ Fail("bitmap does not read or unpack")
                /\ UNCHANGED <<infos, bits>>
           ELSE /\ bits' = InsertEntries(bits, info, bm)
                /\ infos' = Tail(infos)
                /\ Goto("bitmaps")
    /\ UNCHANGED <<sm, thinVars, file, res, exit_code, fatal, verdict,
                   toolVars, mgVars, mvVars>>

\* Ok(bits)
ReturnBits ==
    /\ pc = "bitmaps"
    /\ infos = <<>>
    /\ pc' = "done"
    /\ result' = "ok"
    /\ UNCHANGED <<error, smVars, thinVars, file, res, exit_code, fatal,
                   verdict, toolVars, mgVars, mvVars>>

InitSm ==
    /\ ThinDumpIdle
    /\ pc = "allocated_blocks"
    /\ result = "running"
    /\ error = ""
    /\ sm \in {s \in SpaceMaps : ValidSpaceMap(s)}
    /\ infos = <<>>
    /\ bits = {}
    /\ MgIdle
    /\ MvIdle

NextSm ==
    \/ LoadIndex
    \/ ReadBitmap
    \/ ReturnBits

SpecSm == InitSm /\ [][NextSm]_vars

-----------------------------------------------------------------------------
(* thin/migrate/base.rs: migrate and copy_regions *)

\* everything migrate leaves alone
notMgVars == <<thinVars, file, res, exit_code, fatal, verdict, toolVars,
               smVars, mvVars>>

\* SpecMg: number of chunks of the stream
MaxChunks == 2

\* the longest chunk, in data blocks
MaxChunkBlocks == 2

\* DEFAULT_BUFFER_SIZE, in sectors, scaled down
DEFAULT_BUFFER_SIZE == 4

\* pool_table.data_block_size, in sectors
BlockSizes == {2, 4}

\* opts.buffer_size, in sectors
BufferSizes == {None, 2, 4, 8}

\* the capacity of mpsc::sync_channel::<Vec<CopyOp>>(1)
ChannelBound == 1

Chunk(offset, len, contents) ==
    [offset |-> offset, len |-> len, contents |-> contents]

CopyOp(src, dst) == [src |-> src, dst |-> dst]

\* the runs of mapped (Copy) and unmapped (Skip) blocks of a thin device
ThinRuns ==
    UNION {[1..n -> (1..MaxChunkBlocks) \X {"Skip", "Copy"}] :
              n \in 0..MaxChunks}

RECURSIVE BlocksBefore(_, _)
BlocksBefore(runs, i) ==
    IF i <= 1 THEN 0 ELSE runs[i - 1][1] + BlocksBefore(runs, i - 1)

\* ThinStream: one chunk per run, in sectors, from the start of the device
ThinStream(runs, bs) ==
    [i \in 1..Len(runs) |->
        Chunk(bs * BlocksBefore(runs, i), bs * runs[i][1], runs[i][2])]

\* stream.size_hint() / the length of the thin device, in sectors
StreamLen(chunks) ==
    IF chunks = <<>> THEN 0
    ELSE chunks[Len(chunks)].offset + chunks[Len(chunks)].len

\* the destinations migrate may find: a device or a file of the source's
\* length or of another length, or no file
Dests(len) ==
    {[kind |-> "Dev", create |-> FALSE, len |-> l] : l \in {len, len + 1}}
    \cup {[kind |-> "File", create |-> c, len |-> l] :
             c \in BOOLEAN, l \in {None, len, len + 1}}

LengthsDiffer == "lengths differ"
NoSuchFile == "No such file or directory"

OpenOk(d) == [ok |-> TRUE, dest |-> d, error |-> ""]
OpenErr(d, msg) == [ok |-> FALSE, dest |-> d, error |-> msg]

\* open_dest_dev without the comparison of the lengths
open_dest_dev_unchecked(d, expected_len) ==
    OpenOk([d EXCEPT !.flags = ExclDirect])

open_dest_dev(d, expected_len) ==
    IF d.len # expected_len
    THEN OpenErr(d, LengthsDiffer)
    ELSE OpenOk([d EXCEPT !.flags = ExclDirect])

\* open_dest_file with the custom flags of open_dest_dev
open_dest_file_direct(d, create, expected_len) ==
    IF create
    THEN OpenOk([d EXCEPT !.len = expected_len, !.flags = ExclDirect])
    ELSE IF d.len = None THEN OpenErr(d, NoSuchFile)
    ELSE IF d.len # expected_len THEN OpenErr(d, LengthsDiffer)
    ELSE OpenOk([d EXCEPT !.flags = ExclDirect])

open_dest_file(d, create, expected_len) ==
    IF create
    THEN OpenOk([d EXCEPT !.len = expected_len, !.flags = NoFlags])
    ELSE IF d.len = None THEN OpenErr(d, NoSuchFile)
    ELSE IF d.len # expected_len THEN OpenErr(d, LengthsDiffer)
    ELSE OpenOk([d EXCEPT !.flags = NoFlags])

open_dest(o, d, expected_len) ==
    IF o.dest = "Dev"
    THEN open_dest_dev(d, expected_len)
    ELSE open_dest_file(d, o.create, expected_len)

\* opts.buffer_size.unwrap_or_else(|| max(src.block_size, DEFAULT_BUFFER_SIZE))
buffer_size(o, src) ==
    IF o.buffer_size # None
    THEN o.buffer_size
    ELSE Max(src.block_size, DEFAULT_BUFFER_SIZE)

\* begin..end of a Copy chunk, one block short
CopyRange_short(c, bs) ==
    [b |-> c.offset \div bs, end |-> ((c.offset + c.len) \div bs) - 1]

\* begin..end of a Copy chunk
CopyRange(c, bs) ==
    [b |-> c.offset \div bs, end |-> (c.offset + c.len) \div bs]

\* the blocks pushed for a chunk, were a Skip chunk copied too
ChunkRange_copies_all(c, bs) == CopyRange(c, bs)

\* the blocks pushed for a chunk: none for a Skip chunk
ChunkRange(c, bs) ==
    IF c.contents = "Copy" THEN CopyRange(c, bs) ELSE NoRange

\* where the producer goes on after a push
AfterPush(r) == IF r.b < r.end THEN "push" ELSE "next_chunk"

\* a channel that never makes the sender wait
ChannelFull_never(c) == FALSE

\* the sender waits while the channel holds ChannelBound batches
ChannelFull(c) == Len(c.queue) >= ChannelBound

\* a send that does not notice that the receiver is gone
SendFails_never(c) == FALSE

\* tx.send fails when the receiver has been dropped
SendFails(c) == ~c.rx

\* a complete() after which the sender lives on
DropSender_kept(c) == c

\* batcher.complete() takes the batcher by value: its sender is dropped
\* when the call returns
DropSender(c) == [c EXCEPT !.tx = FALSE]

\* a join that does not wait for the thread
JoinReady_at_once(w) == TRUE

\* handle.join() returns when the thread has returned
JoinReady(w) == w.state \in {"finished", "failed"}

\* open_source(&mut scanner, &opts.source)?
OpenSource ==
    /\ pc = "migrate"
    /\ source' = [source EXCEPT !.flags = ExclDirect]
    /\ Goto("open_dest")
    /\ UNCHANGED <<migrate_opts, dest, dest0, stream, range, batcher,
                   channel, copier, pushed, notMgVars>>

\* file_size(opts.source.path)?; open_dest(.., expected_len)?
OpenDest ==
    /\ pc = "open_dest"
    /\ LET r == open_dest(migrate_opts, dest, source.len)
       IN  /\ dest' = r.dest
           /\ IF r.ok THEN Goto("copy_regions") ELSE Fail(r.error)
    /\ UNCHANGED <<migrate_opts, source, dest0, stream, range, batcher,
                   channel, copier, pushed, notMgVars>>

\* copy_regions up to copier.run(rx, progress): the channel, the batcher
\* and the copier thread
StartCopy ==
    /\ pc = "copy_regions"
    /\ channel' = Channel(<<>>, TRUE, TRUE)
    /\ batcher' = CopyOpBatcher_new(
                      buffer_size(migrate_opts, source) \div source.block_size)
    /\ copier' = Copier("recv", <<>>)
    /\ Goto("next_chunk")
    /\ UNCHANGED <<migrate_opts, source, dest, dest0, stream, range, pushed,
                   notMgVars>>

\* while let Some(chunk) = stream.next_chunk()? { match chunk.contents ..
NextChunk ==
    /\ pc = "next_chunk"
    /\ IF stream = <<>>
       THEN /\ Goto("complete")
            /\ UNCHANGED <<stream, range>>
       ELSE LET c == Head(stream)
                r == ChunkRange(c, source.block_size)
            IN  /\ stream' = Tail(stream)
                /\ IF c.contents = "Discard"
                   THEN /\ pc' = "done"
                        /\ result' = "panic"
                        /\ error' = "not yet implemented"
                        /\ UNCHANGED range
                   ELSE /\ range' = r
                        /\ Goto(AfterPush(r))
    /\ UNCHANGED <<migrate_opts, source, dest, dest0, batcher, channel,
                   copier, pushed, notMgVars>>

\* batcher.push(CopyOp { src: b, dst: b }): the op joins the batch, and a
\* full batch is to be sent
Push ==
    /\ pc = "push"
    /\ LET op == CopyOp(range.b, range.b)
           ops == Append(batcher.ops, op)
       IN  /\ batcher' = [batcher EXCEPT !.ops = ops]
           /\ pushed' = Append(pushed, op)
           /\ range' = [range EXCEPT !.b = @ + 1]
           /\ IF Len(ops) >= batcher.batch_size
              THEN Goto("send")
              ELSE Goto(AfterPush(range'))
    /\ UNCHANGED <<migrate_opts, source, dest, dest0, stream, channel,
                   copier, notMgVars>>

\* tx.send(ops) of a full batch: waits while the channel is full, fails
\* when the receiver is gone, and the error returns from copy_regions
Send ==
    /\ pc = "send"
    /\ SendFails(channel) \/ ~ChannelFull(channel)
    /\ batcher' = [batcher EXCEPT !.ops = <<>>]
    /\ IF SendFails(channel)
       THEN /\ channel' = [channel EXCEPT !.tx = FALSE]
            /\ Fail("failed to send ops")
       ELSE /\ channel' = [channel EXCEPT
                              !.queue = Append(@, batcher.ops)]
            /\ Goto(AfterPush(range))
    /\ UNCHANGED <<migrate_opts, source, dest, dest0, stream, range, copier,
                   pushed, notMgVars>>

\* batcher.complete()?: the last batch is sent and the sender dropped
Complete ==
    /\ pc = "complete"
    /\ SendFails(channel) \/ ~ChannelFull(channel)
    /\ batcher' = [batcher EXCEPT !.ops = <<>>]
    /\ IF SendFails(channel)
       THEN /\ channel' = [channel EXCEPT !.tx = FALSE]
            /\ Fail("failed to send ops")
       ELSE /\ channel' = DropSender([channel EXCEPT
                                         !.queue = Append(@, batcher.ops)])
            /\ Goto("join")
    /\ UNCHANGED <<migrate_opts, source, dest, dest0, stream, range, copier,
                   pushed, notMgVars>>

\* handle.join().unwrap()?; Ok(())
Join ==
    /\ pc = "join"
    /\ JoinReady(copier)
    /\ IF copier.state = "failed"
       THEN Fail("copier failed")
       ELSE /\ pc' = "done"
            /\ result' = "ok"
            /\ UNCHANGED error
    /\ UNCHANGED <<mgVars, notMgVars>>

\* the copier thread: rx.recv() gives the next batch, and waits while the
\* channel is empty
CopierRecv ==
    /\ copier.state = "recv"
    /\ channel.queue # <<>>
    /\ copier' = Copier("copying", Head(channel.queue))
    /\ channel' = [channel EXCEPT !.queue = Tail(@)]
    /\ UNCHANGED <<pc, result, error, migrate_opts, source, dest, dest0,
                   stream, range, batcher, pushed, notMgVars>>

\* the copier thread: the batch is copied
CopierCopy ==
    /\ copier.state = "copying"
    /\ dest' = [dest EXCEPT !.written =
                   @ \cup {copier.ops[i].dst : i \in 1..Len(copier.ops)}]
    /\ copier' = Copier("recv", <<>>)
    /\ UNCHANGED <<pc, result, error, migrate_opts, source, dest0, stream,
                   range, batcher, channel, pushed, notMgVars>>

\* the copier thread: the copy fails after k ops, the thread returns the
\* error and the receiver is dropped with what is queued
CopierFail ==
    /\ copier.state = "copying"
    /\ \E k \in 0..Max(0, Len(copier.ops) - 1) :
          dest' = [dest EXCEPT !.written =
                      @ \cup {copier.ops[i].dst : i \in 1..k}]
    /\ copier' = Copier("failed", <<>>)
    /\ channel' = [channel EXCEPT !.queue = <<>>, !.rx = FALSE]
    /\ UNCHANGED <<pc, result, error, migrate_opts, source, dest0, stream,
                   range, batcher, pushed, notMgVars>>

\* the copier thread: recv() fails once the sender is gone and the channel
\* is empty, and the thread returns Ok
CopierDone ==
    /\ copier.state = "recv"
    /\ channel.queue = <<>>
    /\ ~channel.tx
    /\ copier' = Copier("finished", <<>>)
    /\ channel' = [channel EXCEPT !.rx = FALSE]
    /\ UNCHANGED <<pc, result, error, migrate_opts, source, dest, dest0,
                   stream, range, batcher, pushed, notMgVars>>

InitMg ==
    /\ ThinDumpIdle
    /\ SmIdle
    /\ MvIdle
    /\ pc = "migrate"
    /\ result = "running"
    /\ error = ""
    /\ \E runs \in ThinRuns, bs \in BlockSizes :
          /\ source = Source(StreamLen(ThinStream(runs, bs)), bs,
                             ThinStream(runs, bs), NotOpen)
          /\ stream = source.chunks
    /\ \E d \in Dests(source.len), b \in BufferSizes :
          /\ migrate_opts = ThinMigrateOptions(d.kind, d.create, b)
          /\ dest = Dest(d.len, NotOpen, {})
    /\ dest0 = dest
    /\ range = NoRange
    /\ batcher = CopyOpBatcher_new(0)
    /\ channel = Channel(<<>>, FALSE, FALSE)
    /\ copier = Copier("not started", <<>>)
    /\ pushed = <<>>

NextMg ==
    \/ OpenSource
    \/ OpenDest
    \/ StartCopy
    \/ NextChunk
    \/ Push
    \/ Send
    \/ Complete
    \/ Join
    \/ CopierRecv
    \/ CopierCopy
    \/ CopierFail
    \/ CopierDone

SpecMg == InitMg /\ [][NextMg]_vars

\* the copier thread and the producer are both scheduled
FairMg == WF_vars(NextMg)

SpecMgLive == SpecMg /\ FairMg

-----------------------------------------------------------------------------
(* thin/dump.rs: MappingVisitor called from several threads *)

\* SpecMv: number of threads that call visit, each for one leaf
MaxVisitors == 2

\* the thread that calls end_walk
EndWalker == MaxVisitors + 1

\* everything the calls of MappingVisitor leave alone
notMvVars == <<md, sb, batch, damage, pc, phase, idx, ei, leaves, todo,
               chunk, cur, origin, leafNo, stopAt, failAt, result, error,
               exec, first, fault, file, res, exit_code, fatal, verdict,
               toolVars, smVars, mgVars>>

\* a thread: the call it makes, where it is in it, the leaf it was called
\* with (0: none), the (key, value) pairs it has yet to visit, and the run
\* it has yet to hand to md_out.map
Visitor(kind, at, leaf, kvs, pending) ==
    [kind |-> kind, pc |-> at, leaf |-> leaf, cur |-> kvs,
     pending |-> pending]

\* the leaves the threads visit
GoodLeaves == {l \in Locs : Disk(l).kind = "leaf"}

\* a lock that is given to whoever asks
MutexFree_always(m) == TRUE

\* self.inner.lock(): the lock is given when no thread holds it
MutexFree(m) == m = 0

\* the threads inside visit or end_walk, past the lock
Inside(t) == visitors[t].pc \in {"loop", "map", "complete"}

Traced(t, op) == trace' = Append(trace, [t |-> t, op |-> op])

\* let mut inner = self.inner.lock().unwrap()
MvLock(t) ==
    /\ visitors[t].pc = "call"
    /\ MutexFree(mutex)
    /\ mutex' = t
    /\ visitors' = [visitors EXCEPT ![t].pc =
                       IF visitors[t].kind = "visit" THEN "loop"
                       ELSE "complete"]
    /\ UNCHANGED <<trace, run, ret, inputs, out, notMvVars>>

\* visit: one turn of for (k, v) in keys.iter().zip(values.iter()):
\* inner.builder.next(*k, v.block, v.time)
MvNext(t) ==
    /\ visitors[t].pc = "loop"
    /\ visitors[t].cur # <<>>
    /\ LET kv == Head(visitors[t].cur)
           r == RunBuilder_next(run, kv.key, kv.block, kv.time)
       IN  /\ run' = r.run
           /\ ret' = r.ret
           /\ inputs' = Append(inputs, Entry3(kv.key, kv.block, kv.time))
           /\ visitors' = [visitors EXCEPT
                              ![t].cur = Tail(@),
                              ![t].pending = r.ret,
                              ![t].pc = IF r.ret = NoRun THEN "loop"
                                        ELSE "map"]
    /\ Traced(t, "next")
    /\ UNCHANGED <<mutex, out, notMvVars>>

\* end_walk: inner.builder.complete()
MvComplete(t) ==
    /\ visitors[t].pc = "complete"
    /\ LET r == RunBuilder_complete(run)
       IN  /\ run' = r.run
           /\ ret' = r.ret
           /\ visitors' = [visitors EXCEPT
                              ![t].pending = r.ret,
                              ![t].pc = IF r.ret = NoRun THEN "loop"
                                        ELSE "map"]
    /\ Traced(t, "complete")
    /\ UNCHANGED <<mutex, inputs, out, notMvVars>>

\* inner.md_out.map(&run)?: an Err returns from the call, and the guard is
\* dropped
MvMap(t) ==
    /\ visitors[t].pc = "map"
    /\ out' = Append(out, MapEv(visitors[t].pending))
    /\ Traced(t, "map")
    /\ \E resp \in {"Continue", "Err"} :
          IF IsErr(resp)
          THEN /\ visitors' = [visitors EXCEPT ![t].pc = "err",
                                               ![t].pending = NoRun]
               /\ mutex' = IF mutex = t THEN 0 ELSE mutex
          ELSE /\ visitors' = [visitors EXCEPT ![t].pc = "loop",
                                               ![t].pending = NoRun]
               /\ UNCHANGED mutex
    /\ UNCHANGED <<run, ret, inputs, notMvVars>>

\* Ok(()): the call returns and the guard is dropped
MvReturn(t) ==
    /\ visitors[t].pc = "loop"
    /\ visitors[t].cur = <<>>
    /\ visitors' = [visitors EXCEPT ![t].pc = "ok"]
    /\ mutex' = IF mutex = t THEN 0 ELSE mutex
    /\ UNCHANGED <<trace, run, ret, inputs, out, notMvVars>>

InitMv ==
    /\ ThinDumpIdle
    /\ SmIdle
    /\ MgIdle
    /\ pc = "mv"
    /\ result = "running"
    /\ error = ""
    /\ mutex = 0
    /\ \E ls \in [1..MaxVisitors -> GoodLeaves] :
          visitors = [t \in 1..EndWalker |->
                         IF t = EndWalker
                         THEN Visitor("end_walk", "call", 0, <<>>, NoRun)
                         ELSE Visitor("visit", "call", ls[t],
                                      Disk(ls[t]).kvs, NoRun)]
    /\ trace = <<>>

NextMv ==
    \/ \E t \in 1..EndWalker : MvLock(t)
    \/ \E t \in 1..EndWalker : MvNext(t)
    \/ \E t \in 1..EndWalker : MvComplete(t)
    \/ \E t \in 1..EndWalker : MvMap(t)
    \/ \E t \in 1..EndWalker : MvReturn(t)

SpecMv == InitMv /\ [][NextMv]_vars

-----------------------------------------------------------------------------
(* Properties of the run builder *)

\* the entries the run m stands for: (thin_begin+i, data_begin+i, time)
Expand(m) ==
    [i \in 1..m.len |->
        Entry3(m.thin_begin + i - 1, m.data_begin + i - 1, m.time)]

\* the entries the map events among evs stand for, in order
RECURSIVE ExpandAll(_)
ExpandAll(evs) ==
    IF evs = <<>> THEN <<>>
    ELSE (IF Head(evs).ev = "map" THEN Expand(Head(evs).map) ELSE <<>>)
            \o ExpandAll(Tail(evs))

Count(seq, x) == Cardinality({i \in 1..Len(seq) : seq[i] = x})

SameBag(s1, s2) ==
    \A x \in {s1[i] : i \in 1..Len(s1)} \cup {s2[i] : i \in 1..Len(s2)} :
        Count(s1, x) = Count(s2, x)

\* C1: next(thin_block, data_block, time) on an open run extends it (len+1,
\* nothing emitted) iff thin_block = thin_begin+len, data_block =
\* data_begin+len and time = the run's time; otherwise it emits exactly the
\* open run and opens (thin_block, data_block, time, 1); with no open run it
\* emits nothing and opens (thin_block, data_block, time, 1).
C1_NextExtendsIff ==
    [][(pc = "rb" /\ Len(inputs') = Len(inputs) + 1) =>
        LET e == inputs'[Len(inputs')]
            fits == /\ e.thin_block = run.thin_begin + run.len
                    /\ e.data_block = run.data_begin + run.len
                    /\ e.time = run.time
            extended == /\ run' = Map(run.thin_begin, run.data_begin,
                                      run.time, run.len + 1)
                        /\ out' = out
            opened == run' = Map(e.thin_block, e.data_block, e.time, 1)
        IN  IF run = NoRun
            THEN opened /\ out' = out
            ELSE /\ extended <=> fits
                 /\ ~fits => (opened /\ out' = Append(out, MapEv(run)))
      ]_vars

\* C1 witness: a run was emitted and the run opened after it was extended
C1_Witness ==
    /\ pc = "rb"
    /\ Len(out) >= 1
    /\ run.len >= 2

\* C2: after any sequence of next() calls followed by complete(), expanding
\* the emitted runs yields exactly the bag of the input entries.
C2_BagPreserved ==
    pc = "rb_done" => SameBag(ExpandAll(out), inputs)

\* C2 witness: three entries went in, two runs came out, one of them longer
\* than one entry
C2_Witness ==
    /\ pc = "rb_done"
    /\ Len(inputs) >= 3
    /\ Len(out) >= 2
    /\ \E i \in 1..Len(out) : out[i].map.len >= 2

-----------------------------------------------------------------------------
(* Properties of dump_metadata: reading the callback sequence *)

\* the number a decimal name stands for
RECURSIVE ParseDecimal(_)
ParseDecimal(digits) ==
    IF digits = <<>> THEN 0
    ELSE 10 * ParseDecimal(SubSeq(digits, 1, Len(digits) - 1))
            + digits[Len(digits)]

IsPrefix(s1, s2) == Len(s1) <= Len(s2) /\ s1 = SubSeq(s2, 1, Len(s1))

\* the callbacks the sink accepted: all but one it answered with Err
Accepted == IF failAt # 0 THEN SubSeq(out, 1, failAt - 1) ELSE out

\* the positions of the callbacks of kind k
At(k) == {i \in 1..Len(out) : out[i].ev = k}

\* the position of the first callback of kind k after position b, or one past
\* the end of the sequence
FirstAfter(k, b) ==
    IF \E e \in At(k) : e > b
    THEN CHOOSE e \in At(k) : e > b /\ \A f \in At(k) : f > b => e <= f
    ELSE Len(out) + 1

\* the callbacks after the begin callback at b up to its end callback
BodyOf(b, endKind) == SubSeq(out, b + 1, FirstAfter(endKind, b) - 1)

\* the group that begins at b has been closed
Closed(b, endKind) == FirstAfter(endKind, b) <= Len(out)

\* the body of the first definition delivered under the name
DefBody(name) ==
    LET bs == {b \in At("def_shared_b") : out[b].name = name}
    IN  IF bs = {} THEN <<>>
        ELSE BodyOf(CHOOSE b \in bs : \A c \in bs : b <= c, "def_shared_e")

\* the runs a body stands for, a ref_shared standing for the runs of the
\* definition it names
RECURSIVE Runs(_)
Runs(evs) ==
    IF evs = <<>> THEN <<>>
    ELSE (CASE Head(evs).ev = "map" -> <<Head(evs).map>>
            [] Head(evs).ev = "ref_shared" -> Runs(DefBody(Head(evs).name))
            [] OTHER -> <<>>)
         \o Runs(Tail(evs))

\* each run is not empty and ends before the next begins
Increasing(rs) ==
    /\ \A k \in 1..Len(rs) : rs[k].len >= 1
    /\ \A k \in 1..(Len(rs) - 1) :
          rs[k].thin_begin + rs[k].len <= rs[k + 1].thin_begin

\* the grammar of the stream, as an automaton over the kinds of the events
Step(st, k) ==
    CASE st = "init" /\ k = "superblock_b" -> "defs"
      [] st = "defs" /\ k = "def_shared_b" -> "def"
      [] st = "defs" /\ k = "device_b" -> "dev"
      [] st = "defs" /\ k = "superblock_e" -> "closing"
      [] st = "def" /\ k \in {"map", "ref_shared"} -> "def"
      [] st = "def" /\ k = "def_shared_e" -> "defs"
      [] st = "devs" /\ k = "device_b" -> "dev"
      [] st = "devs" /\ k = "superblock_e" -> "closing"
      [] st = "dev" /\ k \in {"map", "ref_shared"} -> "dev"
      [] st = "dev" /\ k = "device_e" -> "devs"
      [] st = "closing" /\ k = "eof" -> "end"
      [] OTHER -> "bad"

RECURSIVE Scan(_, _)
Scan(evs, st) ==
    IF evs = <<>> THEN st ELSE Scan(Tail(evs), Step(st, Head(evs).ev))

\* C3: for every device emitted, the map events between its device_b and
\* device_e, together with the expansions of its ref_shared events, have
\* strictly increasing thin_begin and pairwise non-overlapping ranges
\* [thin_begin, thin_begin+len).
C3_DeviceRunsIncrease ==
    \A b \in At("device_b") : Increasing(Runs(BodyOf(b, "device_e")))

\* C3 witness: a device was closed whose body holds a map and a ref_shared,
\* standing for three runs or more
C3_Witness ==
    \E b \in At("device_b") :
        LET body == BodyOf(b, "device_e")
        IN  /\ Closed(b, "device_e")
            /\ \E i \in 1..Len(body) : body[i].ev = "map"
            /\ \E i \in 1..Len(body) : body[i].ev = "ref_shared"
            /\ Len(Runs(body)) >= 3

\* C4: a successful dump_metadata delivers a well-bracketed sequence: one
\* superblock_b first, then groups def_shared_b ... def_shared_e, then groups
\* device_b ... device_e, then one superblock_e and one eof last; groups do
\* not nest, and map and ref_shared occur only inside an open group.
C4_WellBracketed ==
    result = "ok" => Scan(out, "init") = "end"

\* C4 witness: a successful dump of a definition and a device with maps
C4_Witness ==
    /\ result = "ok"
    /\ At("def_shared_b") # {}
    /\ At("device_b") # {}
    /\ Cardinality(At("map")) >= 2

\* C5: every shared-definition event precedes the first device_b; the
\* definitions are delivered in the order of the model's defs (ascending
\* def_id) and the devices in the order of the model's devs (ascending
\* thin_id).
C5_DefsThenDevicesInOrder ==
    LET dnames == [i \in 1..Len(md.defs) |-> md.defs[i].def_id]
        tnames == [i \in 1..Len(md.devs) |-> md.devs[i].thin_id]
        ds == SelectSeq(out, LAMBDA e : e.ev = "def_shared_b")
        ts == SelectSeq(out, LAMBDA e : e.ev = "device_b")
        dids == [i \in 1..Len(ds) |-> ParseDecimal(ds[i].name)]
        tids == [i \in 1..Len(ts) |-> ts[i].dev.dev_id]
    IN  /\ \A b \in At("device_b") :
              \A i \in At("def_shared_b") \cup At("def_shared_e") : i < b
        /\ IsPrefix(dids, dnames)
        /\ IsPrefix(tids, tnames)
        /\ result = "ok" => (dids = dnames /\ tids = tnames)
        /\ \A i \in 1..(Len(dids) - 1) : dids[i] < dids[i + 1]
        /\ \A i \in 1..(Len(tids) - 1) : tids[i] < tids[i + 1]

\* C5 witness: a successful dump of two definitions and two devices
C5_Witness ==
    /\ result = "ok"
    /\ Cardinality(At("def_shared_b")) >= 2
    /\ Cardinality(At("device_b")) >= 2

\* C6: between a def_shared_b and its def_shared_e only map events are
\* delivered, whatever entries (Leaf or Ref) the definition holds.
C6_DefBodiesOnlyMaps ==
    \A b \in At("def_shared_b") :
        LET body == BodyOf(b, "def_shared_e")
        IN  \A i \in 1..Len(body) : body[i].ev = "map"

\* C7: each definition of the model is emitted exactly once (no def_id
\* repeated), and every ref_shared names a def_id whose def_shared_b ...
\* def_shared_e group was delivered earlier in the stream.
C7_DefsOnceRefsAfter ==
    /\ \A b \in At("def_shared_b") : \A c \in At("def_shared_b") :
          b # c => out[b].name # out[c].name
    /\ result = "ok" =>
          \A i \in 1..Len(md.defs) :
              Cardinality({b \in At("def_shared_b") :
                  ParseDecimal(out[b].name) = md.defs[i].def_id}) = 1
    /\ \A r \in At("ref_shared") :
          \E b \in At("def_shared_b") :
              /\ out[b].name = out[r].name
              /\ FirstAfter("def_shared_e", b) < r

\* C7 witness: a successful dump of two definitions, both referenced
C7_Witness ==
    /\ result = "ok"
    /\ Cardinality(At("def_shared_b")) >= 2
    /\ Cardinality({out[r].name : r \in At("ref_shared")}) >= 2

\* C8: when dump_metadata fails with a fatal error no partial output has been
\* emitted: the sink has not received a device_b or def_shared_b without its
\* end event, nor map events of the failing group.
C8_NoPartialOutput ==
    result = "err" =>
        Scan(Accepted, "init") \in {"init", "defs", "devs", "closing", "end"}

\* C9: once a callback has returned Stop, traversal ends after the current
\* leaf: no later def_shared_b, device_b or ref_shared is delivered, and no
\* callback is made after a further leaf block has been processed.
C9_StopEndsTraversal ==
    stopAt # 0 =>
        \A j \in (stopAt + 1)..Len(out) :
            /\ out[j].ev \notin {"def_shared_b", "device_b", "ref_shared"}
            /\ origin[j] = origin[stopAt]

\* C10: two executions of dump_metadata over the same superblock, model and
\* blocks deliver identical callback sequences and return the same result,
\* whatever the batch size of the engine.
C10_Deterministic ==
    (exec = 2 /\ ~fault) =>
        /\ IsPrefix(out, first.out)
        /\ pc = "done" =>
              /\ out = first.out
              /\ result = first.result
              /\ error = first.error

\* C10 witness: the second execution, with another batch size, has ended
\* well after reading two leaves of one group
C10_Witness ==
    /\ exec = 2
    /\ pc = "done"
    /\ result = "ok"
    /\ \E i \in 1..Len(md.devs) : Len(md.devs[i].entries) >= 2
                                     /\ md.devs[i].entries[1].tag = "Leaf"
                                     /\ md.devs[i].entries[2].tag = "Leaf"
    /\ Cardinality(At("map")) >= 2

-----------------------------------------------------------------------------
(* Properties of the command-line helpers *)

\* the result is an error whose root cause is an io::Error of kind
\* BrokenPipe, directly or wrapped in an Arc
RootIsBrokenPipe ==
    /\ ~res.ok
    /\ res.chain[Len(res.chain)].type \in {"io", "arc_io"}
    /\ res.chain[Len(res.chain)].kind = "BrokenPipe"

\* C11 as stated: a result that failed with a broken-pipe write error maps
\* to exit code 0.
C11_BrokenPipeExitsZero ==
    (pc = "to_exit_code" /\ RootIsBrokenPipe) => exit_code = 0

\* C11 as amended: a result that failed with a broken-pipe write error
\* (directly or wrapped in an Arc) maps to exit code 64, as every error does.
C11_BrokenPipeExitsUsage ==
    (pc = "to_exit_code" /\ RootIsBrokenPipe) => exit_code = 64

\* C11 witness: to_exit_code was given a broken pipe wrapped in an Arc under
\* another error
C11_Witness ==
    /\ pc = "to_exit_code"
    /\ RootIsBrokenPipe
    /\ Len(res.chain) = 2
    /\ res.chain[2].type = "arc_io"

\* C12: to_exit_code reports a fatal message exactly once if and only if the
\* result is an error whose root cause is not a broken pipe; for a success
\* and for a broken pipe it reports nothing.
C12_FatalOnceIffRealError ==
    pc = "to_exit_code" =>
        /\ Len(fatal) = 1 <=> (~res.ok /\ ~RootIsBrokenPipe)
        /\ (res.ok \/ RootIsBrokenPipe) => fatal = <<>>

\* C12 witness: an error with a cause that is not a broken pipe was reported
\* in one line
C12_Witness ==
    /\ pc = "to_exit_code"
    /\ ~res.ok
    /\ Len(res.chain) = 2
    /\ res.chain[1].kind = "BrokenPipe"
    /\ ~RootIsBrokenPipe
    /\ Len(fatal) = 1

\* C13: to_exit_code returns 0 when the result is Ok and 64 for every error
\* whose root cause is not a broken pipe; no other exit code is produced.
C13_ExitCodes ==
    pc = "to_exit_code" =>
        /\ res.ok => exit_code = 0
        /\ (~res.ok /\ ~RootIsBrokenPipe) => exit_code = 64
        /\ exit_code \in {0, 64}

\* C13 witness: an error that is not a broken pipe got exit code 64
C13_Witness ==
    /\ pc = "to_exit_code"
    /\ ~res.ok
    /\ ~RootIsBrokenPipe
    /\ exit_code = 64

\* C14: check_file_not_tiny rejects every input of 0..=4095 bytes and accepts
\* every input of 4096 bytes or more; a failure to obtain the size is an
\* error as well.
C14_TinyFilesRejected ==
    pc = "check_file_not_tiny" =>
        /\ verdict.called
        /\ verdict.ok <=> (file.stat_ok /\ file.size >= 4096)

\* C14 witness: a file of exactly 4096 bytes was accepted
C14_Witness ==
    /\ pc = "check_file_not_tiny"
    /\ file.stat_ok
    /\ file.size = 4096
    /\ verdict.ok

\* C15: check_not_xml rejects an input if and only if its first 16 bytes can
\* be read and begin with <superblock, ?xml or <!DOCTYPE; any problem reading
\* them (no file, fewer than 16 bytes) is silent and the input is accepted.
C15_XmlRejectedIffReadable ==
    pc = "check_not_xml" =>
        /\ verdict.called
        /\ ~verdict.ok <=>
              /\ file.open_ok
              /\ file.size >= 16
              /\ \E p \in {XmlSuperblock, XmlDecl, XmlDoctype} :
                    SubSeq(file.head, 1, Len(p)) = p

\* C15 witness: a readable file that begins with <!DOCTYPE was rejected
C15_Witness ==
    /\ pc = "check_not_xml"
    /\ file.open_ok
    /\ file.size >= 16
    /\ SubSeq(file.head, 1, 9) = XmlDoctype
    /\ ~verdict.ok

-----------------------------------------------------------------------------
(* thin_dump run twice: the plain dump, then a dump with options *)

\* the second thin_dump has returned and the engine did not fail under it
SecondDone == exec = 2 /\ pc = "done" /\ ~fault

\* the <superblock> attributes a dump wrote
SbOf(o) == o[1].sb

\* no override is given / every override given carries what the pool wrote
NoOverride(o) ==
    /\ o.transaction_id = None
    /\ o.data_block_size = None
    /\ o.nr_data_blocks = None

OriginalOverrides(o, s) ==
    /\ o.transaction_id = s.transaction_id
    /\ o.data_block_size = s.data_block_size
    /\ o.nr_data_blocks = s.sm_nr_blocks

\* the dump o differs from the dump p at most in the superblock's time
SameButTime(o, p) ==
    /\ Len(o) = Len(p)
    /\ Len(o) >= 1
    /\ Tail(o) = Tail(p)
    /\ o[1].ev = p[1].ev
    /\ [SbOf(o) EXCEPT !.time = 0] = [SbOf(p) EXCEPT !.time = 0]

\* C16: a plain dump of healthy metadata with overrides succeeds; each
\* overridden superblock attribute carries the supplied value, every other
\* attribute and every event after the superblock is as in the dump
\* without overrides.
C16_OverrideFrame ==
    (/\ SecondDone
     /\ ~opts.repair
     /\ ~opts.use_metadata_snap
     /\ device.state = "healthy") =>
        /\ result = "ok"
        /\ Len(out) = Len(first.out)
        /\ Tail(out) = Tail(first.out)
        /\ out[1].ev = "superblock_b"
        /\ LET a == SbOf(out)
               b == SbOf(first.out)
           IN  /\ a.transaction = IF opts.transaction_id # None
                                  THEN opts.transaction_id ELSE b.transaction
               /\ a.data_block_size = IF opts.data_block_size # None
                                      THEN opts.data_block_size
                                      ELSE b.data_block_size
               /\ a.nr_data_blocks = IF opts.nr_data_blocks # None
                                     THEN opts.nr_data_blocks
                                     ELSE b.nr_data_blocks
               /\ a.time = b.time
               /\ a.flags = b.flags
               /\ a.version = b.version

C16_Witness ==
    /\ SecondDone
    /\ ~opts.repair
    /\ ~opts.use_metadata_snap
    /\ device.state = "healthy"
    /\ opts.transaction_id = 2345
    /\ opts.data_block_size = None
    /\ opts.nr_data_blocks = 234500
    /\ result = "ok"
    /\ SbOf(out).transaction = 2345
    /\ SbOf(out).nr_data_blocks = 234500
    /\ \E i \in 1..Len(out) : out[i].ev = "map"

\* the cases of a repairing dump that the intact metadata is compared with
RepairCase ==
    /\ SecondDone
    /\ opts.repair
    /\ \/ device.state = "healthy" /\ NoOverride(opts)
       \/ device.state = "stale" /\ NoOverride(opts)
       \/ device.state = "destroyed" /\ OriginalOverrides(opts, device.sb)

C19_MandatoryOverride ==
    (SecondDone /\ opts.repair /\ device.state = "destroyed") =>
        IF opts.data_block_size = None
        THEN result = "err" /\ error = DataBlockSizeNeeded /\ out = <<>>
        ELSE /\ result = "ok"
             /\ SbOf(out).data_block_size = opts.data_block_size
             /\ SbOf(out).transaction =
                    IF opts.transaction_id # None THEN opts.transaction_id
                    ELSE RecoveredTransactionId(md)
             /\ SbOf(out).nr_data_blocks =
                    IF opts.nr_data_blocks # None THEN opts.nr_data_blocks
                    ELSE RecoveredNrDataBlocks(md)

C19_Witness ==
    /\ SecondDone
    /\ opts.repair
    /\ device.state = "destroyed"
    /\ opts.data_block_size = 128
    /\ opts.transaction_id = None
    /\ opts.nr_data_blocks = None
    /\ result = "ok"
    /\ md.devs # <<>>
    /\ SbOf(out).transaction = RecoveredTransactionId(md)
    /\ SbOf(out).transaction # device.sb.transaction_id

\* a repairing dump that rebuilt a superblock whose time could still be read
RebuiltCase ==
    /\ SecondDone
    /\ opts.repair
    /\ device.state = "stale"
    /\ result = "ok"

SnapTimes(o) ==
    {<<o[i].dev.dev_id, o[i].dev.snap_time>> :
        i \in {j \in 1..Len(o) : o[j].ev = "device_b"}}

SnapCase ==
    /\ SecondDone
    /\ opts.use_metadata_snap
    /\ device.metadata_snap # 0

\* the <superblock> of a dump of the snapshot's superblock
SnapIr == to_superblock_ir(SnapSuperblock(device.sb)).sb

\* with --repair the superblock dumped is the one the repair gives, the
\* snapshot is not used
RepairFirst ==
    (SecondDone /\ opts.use_metadata_snap /\ opts.repair) =>
        LET r == read_or_rebuild_superblock(device, md, opts)
        IN  IF r.ok
            THEN result = "ok" /\ SbOf(out) = to_superblock_ir(r.sb).sb
            ELSE result = "err" /\ error = r.err

-----------------------------------------------------------------------------
(* allocated_blocks *)

\* the blocks whose entry in the bitmap listed at their index position is
\* not zero
AllocatedInIndex(s) ==
    {k * ENTRIES_PER_BITMAP + i :
        k \in {a \in 0..(Len(s.index) - 1) : s.bitmaps[s.index[a + 1]] # <<>>},
        i \in 0..(ENTRIES_PER_BITMAP - 1)} \cap
    {b \in 0..(Len(s.index) * ENTRIES_PER_BITMAP) :
        LET k == b \div ENTRIES_PER_BITMAP
            i == b % ENTRIES_PER_BITMAP
        IN  /\ k < Len(s.index)
            /\ s.bitmaps[s.index[k + 1]] # <<>>
            /\ s.bitmaps[s.index[k + 1]][i + 1] # 0}

\* C22: the set allocated_blocks returns holds block
\* index * ENTRIES_PER_BITMAP + i exactly when entry i of the bitmap listed
\* at position index is not zero, wherever the bitmaps are located.
C22_BitsByIndexPosition ==
    (pc = "done" /\ result = "ok") => bits = AllocatedInIndex(sm)

C22_Witness ==
    /\ pc = "done"
    /\ result = "ok"
    /\ sm.index = <<12, 11>>
    /\ sm.bitmaps[12] = <<1, 0>>
    /\ sm.bitmaps[11] = <<0, 3>>
    /\ bits = {0, 3}

-----------------------------------------------------------------------------
(* migrate *)

\* copy_regions has returned Ok
CopyDone == pc = "done" /\ result = "ok" /\ copier.state # "not started"

\* the blocks that hold a sector of a chunk with the given contents
BlocksOf(src, contents) ==
    {x \div src.block_size :
        x \in UNION {c.offset..(c.offset + c.len - 1) :
                        c \in {src.chunks[i] : i \in
                                  {j \in 1..Len(src.chunks) :
                                      src.chunks[j].contents = contents}}}}

\* the destination blocks of the ops pushed
PushedBlocks == {pushed[i].dst : i \in 1..Len(pushed)}

\* C23: no CopyOp is pushed for a block of a Skip chunk and no such block
\* is written; the blocks written are always blocks of Copy chunks, and
\* when copy_regions returns Ok they are exactly the blocks of the Copy
\* chunks.
C23_SkipUntouched ==
    /\ PushedBlocks \cap BlocksOf(source, "Skip") = {}
    /\ dest.written \cap BlocksOf(source, "Skip") = {}
    /\ dest.written \subseteq BlocksOf(source, "Copy")
    /\ CopyDone => dest.written = BlocksOf(source, "Copy")

C23_Witness ==
    /\ CopyDone
    /\ Len(source.chunks) = 2
    /\ source.chunks[1].contents = "Skip"
    /\ source.chunks[2].contents = "Copy"
    /\ dest.written = BlocksOf(source, "Copy")
    /\ dest.written # {}

\* the ops of one chunk: one per block from offset / block_size up to, not
\* including, (offset + len) / block_size
RECURSIVE BlockOps(_, _)
BlockOps(b, end) ==
    IF b >= end THEN <<>> ELSE <<CopyOp(b, b)>> \o BlockOps(b + 1, end)

RECURSIVE StreamOps(_, _)
StreamOps(chunks, bs) ==
    IF chunks = <<>> THEN <<>>
    ELSE LET c == Head(chunks)
         IN  (IF c.contents = "Copy"
              THEN BlockOps(c.offset \div bs, (c.offset + c.len) \div bs)
              ELSE <<>>) \o StreamOps(Tail(chunks), bs)

\* the producer has taken every chunk and pushed every op of the last
AllPushed == pc \in {"complete", "join"} \/ CopyDone

\* C24: the ops pushed are, in order, those of the Copy chunks in stream
\* order, one per block b with offset/block_size <= b <
\* (offset+len)/block_size in ascending b and with src = dst = b; once the
\* stream is exhausted all of them have been pushed and every sector of a
\* Copy chunk lies in the block of a pushed op.
C24_OpsPerBlock ==
    LET want == StreamOps(source.chunks, source.block_size)
    IN  /\ Len(pushed) <= Len(want)
        /\ pushed = SubSeq(want, 1, Len(pushed))
        /\ AllPushed =>
              /\ pushed = want
              /\ BlocksOf(source, "Copy") \subseteq PushedBlocks

C24_Witness ==
    /\ AllPushed
    /\ Len(source.chunks) = 2
    /\ source.chunks[1].contents = "Copy"
    /\ source.chunks[2].contents = "Copy"
    /\ source.chunks[1].len = 2 * source.block_size
    /\ source.block_size = 4
    /\ Len(pushed) >= 3
    /\ pushed[3] = CopyOp(2, 2)

\* the ops in the batches queued
RECURSIVE QueuedOps(_)
QueuedOps(q) == IF q = <<>> THEN 0 ELSE Len(Head(q)) + QueuedOps(Tail(q))

\* the most ops a batch holds
BatchLimit == Max(1, batcher.batch_size)

\* C25: at most one batch is queued in the channel; the producer's send
\* cannot proceed while the channel is full and the worker's recv cannot
\* proceed while it is empty; the ops pushed and not yet copied are those
\* of the batch being filled, of the one queued batch and of the batch
\* being copied.
C25_BoundedChannel ==
    /\ Len(channel.queue) <= 1
    /\ (pc \in {"send", "complete"} /\ channel.rx /\ Len(channel.queue) = 1)
          => ~ENABLED (Send \/ Complete)
    /\ (copier.state = "recv" /\ channel.queue = <<>> /\ channel.tx)
          => ~ENABLED (CopierRecv \/ CopierDone)
    /\ Len(batcher.ops) <= BatchLimit
    /\ Len(copier.ops) <= BatchLimit
    /\ \A i \in 1..Len(channel.queue) : Len(channel.queue[i]) <= BatchLimit
    /\ (channel.rx /\ channel.tx) =>
          /\ Len(pushed) - Cardinality(dest.written) =
                Len(batcher.ops) + QueuedOps(channel.queue) + Len(copier.ops)
          /\ Len(pushed) - Cardinality(dest.written) <= 3 * BatchLimit

C25_Witness ==
    /\ pc = "send"
    /\ channel.rx
    /\ Len(channel.queue) = 1
    /\ copier.state = "copying"
    /\ Len(pushed) - Cardinality(dest.written) = 3 * BatchLimit
    /\ ~ENABLED Send

\* C26: when copy_regions returns Ok the batcher holds no op, the channel
\* is empty and its sender dropped, the copier thread has returned without
\* an error, and every op pushed has been copied.
C26_OkAfterDrainAndJoin ==
    CopyDone =>
        /\ batcher.ops = <<>>
        /\ channel.queue = <<>>
        /\ ~channel.tx
        /\ copier.state = "finished"
        /\ dest.written = PushedBlocks

C26_Witness ==
    /\ CopyDone
    /\ batcher.batch_size = 2
    /\ Len(pushed) = 3
    /\ copier.state = "finished"
    /\ dest.written = PushedBlocks

\* C27: once the copier thread has failed no batch is accepted by the
\* channel any more and copy_regions does not return Ok; the producer
\* does not wait forever: copy_regions returns an error.
C27_CopierErrorReturned ==
    /\ [](copier.state = "failed" =>
             /\ channel.queue = <<>>
             /\ ~(pc = "done" /\ result = "ok"))
    /\ (copier.state = "failed") ~> (pc = "done" /\ result = "err")

C27_Witness ==
    /\ copier.state = "failed"
    /\ pc = "done"
    /\ result = "err"
    /\ error = "failed to send ops"
    /\ stream # <<>>

\* the destination is not one that is created, and its length is not the
\* source's
LengthMismatch ==
    /\ migrate_opts.dest = "Dev" \/ ~migrate_opts.create
    /\ dest0.len # source.len

\* C28: copying starts only with a destination as long as the source; a
\* device, or a file that is not to be created, of another length makes
\* migrate fail with no copy operation issued and the destination as it
\* was; a file that is to be created has the source's length before
\* copying starts.
C28_LengthsChecked ==
    /\ copier.state # "not started" => dest.len = source.len
    /\ LengthMismatch =>
          /\ copier.state = "not started"
          /\ pushed = <<>>
          /\ dest = dest0
          /\ pc = "done" => result = "err"
    /\ (migrate_opts.create /\ migrate_opts.dest = "File"
        /\ pc \notin {"migrate", "open_dest"}) => dest.len = source.len

C28_Witness ==
    /\ LengthMismatch
    /\ migrate_opts.dest = "Dev"
    /\ dest0.len # None
    /\ pc = "done"
    /\ result = "err"
    /\ error = LengthsDiffer
    /\ dest = dest0

-----------------------------------------------------------------------------
(* Properties of dump_metadata: runs, leaves and their order *)

\* the leaves of the model in the order dump_metadata meets them
DumpLeaves ==
    LET es == SelectSeq(AllEntries(md), LAMBDA e : e.tag = "Leaf")
    IN  [i \in 1..Len(es) |-> es[i].v]

\* the entries of the leaves ls, in order
RECURSIVE LeafEntries(_)
LeafEntries(ls) ==
    IF ls = <<>> THEN <<>>
    ELSE LET kvs == Disk(Head(ls)).kvs
         IN  [i \in 1..Len(kvs) |->
                 Entry3(kvs[i].key, kvs[i].block, kvs[i].time)]
             \o LeafEntries(Tail(ls))

\* the callbacks that end a sequence of leaves
Boundaries == At("ref_shared") \cup At("def_shared_e") \cup At("device_e")

\* C31: complete() returns the open run, if there is one, and leaves the
\* builder empty, so that a second complete() returns nothing; no run is
\* open while emit_entries is not inside emit_leaves, and when a
\* ref_shared, def_shared_e or device_e is delivered the map events
\* delivered before it stand for exactly the entries of the leaves
\* processed before it.
C31_NoRunAcrossBoundary ==
    /\ RunBuilder_complete(run).ret = run
    /\ RunBuilder_complete(run).run = NoRun
    /\ RunBuilder_complete(RunBuilder_complete(run).run).ret = NoRun
    /\ pc \in {"group", "entries", "eof"} => run = NoRun
    /\ (pc = "done" /\ result = "ok") => run = NoRun
    /\ \A j \in Boundaries :
          ExpandAll(SubSeq(out, 1, j - 1)) =
              LeafEntries(SubSeq(DumpLeaves, 1, origin[j]))

C31_Witness ==
    /\ pc = "done"
    /\ result = "ok"
    /\ \E j \in At("ref_shared") :
          /\ j > 1
          /\ out[j - 1].ev = "map"
          /\ out[j - 1].map.len >= 2
          /\ \E k \in At("device_b") : k < j /\ FirstAfter("device_e", k) > j

\* the run r2 goes on where the run r1 ends, at the same time
Continues(r1, r2) ==
    /\ r2.thin_begin = r1.thin_begin + r1.len
    /\ r2.data_begin = r1.data_begin + r1.len
    /\ r2.time = r1.time

\* C32: of two map events delivered one right after the other, from the
\* leaves of one emit_leaves call, the second does not go on where the
\* first ends with the same time; every run delivered has len >= 1.
C32_RunsMaximal ==
    /\ \A j \in At("map") : out[j].map.len >= 1
    /\ \A j \in At("map") :
          (j + 1) \in At("map") => ~Continues(out[j].map, out[j + 1].map)

C32_Witness ==
    \E j \in At("map") :
        /\ (j + 1) \in At("map")
        /\ out[j].map = Map(0, 0, 0, 3)
        /\ out[j + 1].map = Map(3, 0, 1, 1)
        /\ batch = 1

\* the leaves among the entries es, in order
LeavesIn(es) ==
    LET ls == SelectSeq(es, LAMBDA e : e.tag = "Leaf")
    IN  [i \in 1..Len(ls) |-> ls[i].v]

\* the k-th smallest element of the set of numbers S
Nth(S, k) == CHOOSE p \in S : Cardinality({q \in S : q <= p}) = k

\* the positions of the Ref entries in the model, in the order of the dump
RefEntries == {i \in 1..Len(AllEntries(md)) : AllEntries(md)[i].tag = "Ref"}

\* the entries of the visit under way that are still to be fed to the run
\* builder
Unvisited ==
    [i \in 1..Len(cur) |-> Entry3(cur[i].key, cur[i].block, cur[i].time)]

\* C33: the leaves are processed once each and in the order of the entries
\* list, whatever the batch size: the blocks still to be processed are the
\* leaves that follow those processed, and the entries fed to the run
\* builder are those of the leaves processed, in order; the k-th
\* ref_shared delivered names the k-th Ref entry and comes after exactly
\* the map events of the Leaf entries before that entry.
C33_EntryOrder ==
    /\ leafNo <= Len(DumpLeaves)
    /\ pc \in {"read", "visit"} =>
          chunk \o todo =
              SubSeq(DumpLeaves, leafNo + 1,
                     leafNo + Len(chunk) + Len(todo))
    /\ pc \in {"read", "visit"} =>
          ExpandAll(out) \o Expand(run) \o Unvisited =
              LeafEntries(SubSeq(DumpLeaves, 1, leafNo))
    /\ (pc = "done" /\ result = "ok") =>
          /\ leafNo = Len(DumpLeaves)
          /\ ExpandAll(out) = LeafEntries(DumpLeaves)
    /\ Cardinality(At("ref_shared")) <= Cardinality(RefEntries)
    /\ \A k \in 1..Cardinality(At("ref_shared")) :
          LET j == Nth(At("ref_shared"), k)
              e == Nth(RefEntries, k)
          IN  /\ out[j].name = Format(AllEntries(md)[e].v)
              /\ ExpandAll(SubSeq(out, 1, j - 1)) =
                    LeafEntries(LeavesIn(SubSeq(AllEntries(md), 1, e - 1)))

C33_Witness ==
    /\ pc = "done"
    /\ result = "ok"
    /\ batch = 1
    /\ \E i \in 1..Len(md.devs) :
          /\ Len(md.devs[i].entries) = 2
          /\ md.devs[i].entries[1].tag = "Ref"
          /\ md.devs[i].entries[2].tag = "Leaf"
    /\ \E j \in At("ref_shared") :
          /\ out[j - 1].ev = "device_b"
          /\ out[j + 1].ev = "map"
          /\ ExpandAll(SubSeq(out, 1, j - 1)) = LeafEntries(<<1>>)

\* dump_metadata has returned the error of a block that cannot be used
DamageMet ==
    /\ pc = "done"
    /\ result = "err"
    /\ error \in {DamageError(k) : k \in DamageKinds}

\* C34: every block processed as a leaf has been read, has the checksum of
\* a node and unpacks as a leaf; a block that cannot be read, fails the
\* checksum, does not unpack or is an internal node ends the dump with its
\* error: no map event comes from it, no later block is processed, and a
\* dump over such a block never succeeds.
C34_LeavesVerified ==
    /\ \A i \in 1..leafNo :
          /\ i <= Len(DumpLeaves)
          /\ Disk(DumpLeaves[i]).kind = "leaf"
    /\ (pc = "done" /\ result = "ok") =>
          \A i \in 1..Len(DumpLeaves) : Disk(DumpLeaves[i]).kind = "leaf"
    /\ DamageMet =>
          /\ damage # "unknown"
          /\ error = DamageError(damage)
          /\ chunk # <<>>
          /\ Disk(Head(chunk)).kind = "damaged"
          /\ Head(chunk) = DumpLeaves[leafNo + 1]
          /\ IsPrefix(ExpandAll(out),
                      LeafEntries(SubSeq(DumpLeaves, 1, leafNo)))
    /\ (pc = "done" /\ damage # "unknown" /\ ~fault) => DamageMet
    /\ fault => (pc = "done" /\ result = "err"
                  /\ error = "read_many failed")

C34_Witness ==
    /\ DamageMet
    /\ exec = 1
    /\ damage = "internal"
    /\ error = "block is not a leaf"
    /\ batch = 2
    /\ leafNo = 1
    /\ Len(chunk) = 1
    /\ Len(leaves) = 2
    /\ Cardinality(At("map")) = 0

-----------------------------------------------------------------------------
(* MappingVisitor: the mutex *)

\* what the thread t has done is done in one piece
OnePiece(t) ==
    \A i \in 1..Len(trace) : \A k \in 1..Len(trace) :
        (i < k /\ trace[i].t = t /\ trace[k].t = t) =>
            \A j \in i..k : trace[j].t = t

\* the entries the thread t has fed to the run builder
FedBy(t) ==
    LET nexts == SelectSeq(trace, LAMBDA x : x.op = "next")
        mine == {i \in 1..Len(nexts) : nexts[i].t = t}
    IN  [k \in 1..Cardinality(mine) |-> inputs[Nth(mine, k)]]

\* the entries the thread t was called with
GivenTo(t) == LeafEntries(<<visitors[t].leaf>>)

\* C35: at most one thread is inside visit or end_walk past the lock, and
\* it holds the mutex; the builder calls and map callbacks of one call are
\* made in one piece, with none of another call between them, for visit and
\* end_walk alike; a visit that returns Ok has fed all the entries of its
\* leaf, in order.
C35_VisitsSerialized ==
    /\ \A t \in 1..EndWalker : Inside(t) => mutex = t
    /\ \A t \in 1..EndWalker : OnePiece(t)
    /\ \A t \in 1..MaxVisitors :
          visitors[t].pc = "ok" => FedBy(t) = GivenTo(t)

C35_Witness ==
    /\ \A t \in 1..EndWalker : visitors[t].pc = "ok"
    /\ trace[1].t = 2
    /\ trace[Len(trace)].t = EndWalker
    /\ visitors[1].leaf = 2
    /\ visitors[2].leaf = 1
    /\ FedBy(1) = LeafEntries(<<2>>)
    /\ FedBy(2) = LeafEntries(<<1>>)
    /\ Len(out) = 2

-----------------------------------------------------------------------------
(* allocated_blocks: the range of the block numbers *)

\* the 64-bit block numbers base + i of the entries of s that are not zero
NonZeroBlocks(s) ==
    {b \in 0..(Len(s.index) * ENTRIES_PER_BITMAP - 1) :
        LET bm == s.bitmaps[s.index[(b \div ENTRIES_PER_BITMAP) + 1]]
        IN  /\ bm # <<>>
            /\ bm[(b % ENTRIES_PER_BITMAP) + 1] # 0}

\* C36: every element of the set allocated_blocks returns is the number of
\* a real data block: it is below nr_blocks, it is the block number
\* index * ENTRIES_PER_BITMAP + i of an entry that is not zero, unchanged
\* by the cast to u32, and entries of the last bitmap beyond nr_blocks are
\* not reported.
C36_OnlyRealBlocks ==
    (pc = "done" /\ result = "ok") =>
        /\ \A b \in bits : b < sm.nr_blocks
        /\ bits = {b \in NonZeroBlocks(sm) : b < sm.nr_blocks}
        /\ \A b \in NonZeroBlocks(sm) : AsU32(b) = b

-----------------------------------------------------------------------------
(* copy_regions: termination *)

\* the producer waits: on a send into a full channel, or on the join
ProducerWaits ==
    \/ pc \in {"send", "complete"} /\ ~ENABLED (Send \/ Complete)
    \/ pc = "join" /\ ~JoinReady(copier)

\* the copier thread waits on recv
WorkerWaits ==
    /\ copier.state = "recv"
    /\ ~ENABLED (CopierRecv \/ CopierDone)

\* the copier thread is not running
WorkerOver == copier.state \in {"not started", "finished", "failed"}

\* C37: copy_regions terminates for a finite stream: when the worker
\* finishes each batch it receives, the producer comes to the end of its
\* pushes, complete() sends the last batch and closes the channel, the
\* worker's receive loop ends and the join returns; in no reachable state
\* does the producer wait on send or join while the worker waits on recv.
C37_CopyTerminates ==
    /\ [](~(ProducerWaits /\ WorkerWaits))
    /\ [](pc = "join" => ~channel.tx)
    /\ (pc = "copy_regions") ~> (pc = "done")
    /\ (pc = "join") ~> (pc = "done" /\ WorkerOver)
    /\ <>[](pc = "done" /\ WorkerOver)

C37_Witness ==
    /\ pc = "done"
    /\ result = "ok"
    /\ copier.state = "finished"
    /\ batcher.batch_size = 1
    /\ Len(source.chunks) = 2
    /\ Len(pushed) = 3
    /\ ~channel.rx

-----------------------------------------------------------------------------
(* copy_regions: the capacity of the batcher *)

\* C38: the capacity buffer_size / block_size of the batcher is at least
\* 1: without a buffer size the buffer is
\* max(block_size, DEFAULT_BUFFER_SIZE), and with any buffer size given
\* the capacity is still at least 1, so that the ops pushed travel in
\* batches of at most capacity ops.
C38_CapacityAtLeastOne ==
    copier.state # "not started" =>
        /\ batcher.batch_size =
              buffer_size(migrate_opts, source) \div source.block_size
        /\ migrate_opts.buffer_size = None =>
              buffer_size(migrate_opts, source) =
                  Max(source.block_size, DEFAULT_BUFFER_SIZE)
        /\ batcher.batch_size >= 1
        /\ Len(copier.ops) <= batcher.batch_size
        /\ \A i \in 1..Len(channel.queue) :
              Len(channel.queue[i]) <= batcher.batch_size

=============================================================================
